---- MODULE Spec2Model ----
(***************************************************************************)
(* Bluesky data extraction scripts: the session/request wrapper, the       *)
(* cursor paginators, the thread-pool comment enrichment and the save      *)
(* step, modelled from the Python sources.                                 *)
(*                                                                         *)
(* Python values are encoded as follows: None and the empty string are 0   *)
(* for tokens, cursors and uris; a dict is a record whose fields are all   *)
(* present, with a "has_..." flag where the code tests for a key.          *)
(***************************************************************************)
EXTENDS Integers, Sequences, FiniteSets, TLC

\* ------------------------------------------------------------------ bounds
\* Size of the worker pool. The scripts set 10 (5 in multiple_user.py); the
\* model runs a scaled-down pool.
MAX_WORKERS == 2
\* Comments kept per post. The scripts set 150 (75 in multiple_user.py); scaled down.
MAX_COMMENTS_PER_POST == 2
\* The page size cap of the count-bounded paginators, min(100, ...) in the
\* scripts; scaled down.
PAGE_LIMIT == 2
\* Largest number of posts the user asks for.
MaxMaxPosts == 3
\* Largest number of items the server puts on one page, whatever the limit.
MaxPageLen == 3
\* Largest number of items on one page of an author feed.
MaxUserPageLen == 2
\* Page requests after which the author-feed loop (while True) is cut off.
MaxUserPages == 2
\* Largest number of posts handed to the enrichment pool.
MaxEnrichPosts == 3
\* Largest number of top-level replies of a thread that is reshaped alone.
MaxThreadReplies == 3
\* Largest number of replies under one comment of such a thread.
MaxReplyLen == 2
\* Largest number of handles entered in multiple_user.py.
MaxHandles == 2
\* The tokens the server mints are 1 .. MaxTokens: createSession mints 1,
\* and refreshSession stops succeeding once MaxTokens is reached.
MaxTokens == 2

\* ------------------------------------------------------------------ scripts
StrictScripts == {"search_based", "trend_based", "user_based", "multiple_user"}
AuthScripts == StrictScripts \cup {"feed_based"}
\* make_public_request returns None on an error here ...
PublicNoneScripts == {"feed_based_unauth", "trend_based_unauth"}
\* ... and re-raises here.
PublicRaiseScripts == {"user_based_unauth"}
CountScripts ==
    {"feed_based", "search_based", "trend_based", "feed_based_unauth", "trend_based_unauth"}
UserScripts == {"user_based", "user_based_unauth", "multiple_user"}

\* The scripts that enrich their posts with one pool.
SinglePoolScripts == CountScripts \cup {"user_based", "user_based_unauth"}
\* One script for each request function that differs: the enrichment code of
\* search_based.py and trend_based.py is that of user_based.py (the strict
\* _make_request, get_post_thread, the pool block), and that of
\* trend_based_unauth.py is that of feed_based_unauth.py.
EnrichScripts == {"user_based", "feed_based", "feed_based_unauth", "user_based_unauth"}

\* The main thread, and the worker threads a pool could start if nothing
\* capped it: one per submitted task.
Main == 0
Workers == 1 .. MaxEnrichPosts
Threads == {Main} \cup Workers

VARIABLES
    script,          \* the script that is running
    session_active,  \* BlueskySession.session_active
    access_jwt,      \* BlueskySession.access_jwt (0 is None)
    refresh_jwt,     \* BlueskySession.refresh_jwt (0 is None)
    srv_tok,         \* the last token the server minted
    rq,              \* per thread: the frame of its current top-level request
    max_posts,       \* paginator argument
    all_posts,       \* paginator local
    cursor,          \* paginator local (0 is None)
    pg_pc,           \* paginator position
    page_requests,   \* page requests issued by the paginator
    end_reason,      \* why the paginator's loop ended
    page_log,        \* the page exchanges so far: cursor sent, outcome, cursor received
    max_posts_input, \* what the user typed at the max-posts prompt
    start_time,      \* get_all_user_posts argument (0 is None)
    end_time,        \* get_all_user_posts argument (0 is None)
    final_posts,     \* the post dicts handed to executor.map, mutated in place
    work_queue,      \* ThreadPoolExecutor._work_queue: indices of waiting tasks
    num_threads,     \* len(ThreadPoolExecutor._threads)
    wk,              \* per worker thread: what it is running
    fut,             \* per task: its future, with the history of its fetch
    results,         \* list(executor.map(...)) so far: references into final_posts
    main_pc,         \* position of the main thread in the enrichment block
    thread,          \* fetch_comments_and_replies local: what get_post_thread returned
    fs_dirs,         \* the directories that exist in the working directory
    todo,            \* save step: per collection still to save, its number of posts
    save_pc,         \* position in the save step
    saves,           \* the outcome of each open(filename, 'w') so far
    filter_choice,   \* __main__: the answer to the filter-by-timestamp prompt
    lang_choice,     \* search_based __main__: the language typed ("" is blank)
    lower_limit_str, \* search_based __main__: the start date typed (0 is blank)
    upper_limit_str, \* search_based __main__: the end date typed (0 is blank)
    tasks,           \* multiple_user __main__: the handles entered, in order
    user_futs,       \* outer pool: per submitted task its future
    user_queue,      \* outer pool: indices of the tasks waiting for a thread
    user_threads,    \* outer pool: number of threads started
    user_wk,         \* outer pool: per thread what it is running
    finished,        \* the tasks whose get_all_user_posts has returned, in that order
    yielded,         \* how many results the for loop has taken from executor.map
    handled,         \* the tasks whose posts the loop body has processed, in that order
    multi_pc,        \* position of multiple_user's main thread
    impl             \* per author-feed implementation, run side by side: its locals and requests

sessVars == <<script, session_active, access_jwt, refresh_jwt, srv_tok, rq>>
pageVars == <<max_posts, all_posts, cursor, pg_pc, page_requests, end_reason, page_log>>
userVars == <<max_posts_input, start_time, end_time>>
enrichVars == <<final_posts, work_queue, num_threads, wk, fut, results, main_pc>>
saveVars == <<thread, fs_dirs, todo, save_pc, saves>>
filterVars == <<filter_choice, lang_choice, lower_limit_str, upper_limit_str>>
equivVars == <<impl>>
multiVars ==
    <<tasks, user_futs, user_queue, user_threads, user_wk, finished, yielded, handled, multi_pc>>
vars == <<sessVars, pageVars, userVars, enrichVars, saveVars, filterVars, multiVars, equivVars>>

Min(a, b) == IF a <= b THEN a ELSE b

\* ------------------------------------------------------------------ server answers
\* A post thread as get_post_thread returns it: kind "none" is None, kind
\* "empty" is the {} of a response without a 'thread' key, and has_replies
\* says whether the thread has a 'replies' key.
NoThread == [kind |-> "none", has_replies |-> FALSE, replies |-> <<>>]
\* A response body: a page of items (each item stands for a post and holds
\* its createdAt) with a cursor (0: the response has none), or a thread;
\* kind "none" is a response without content.
NoBody == [kind |-> "none", items |-> <<>>, cursor |-> 0, thread |-> NoThread]
NoAnswer == [kind |-> "none", status |-> 0, error |-> ""]
\* Status line and error code of an answer, without its body.
Code(ans) == [kind |-> ans.kind, status |-> ans.status, error |-> ans.error]

\* The pages of the feed and search endpoints; the count-bounded scripts do
\* not read createdAt while paginating, so every item holds 0.
PageBodies ==
    { [kind |-> "page", items |-> [i \in 1 .. n |-> 0], cursor |-> c, thread |-> NoThread] :
        n \in 0 .. MaxPageLen, c \in 0 .. 2 }

ErrorAnswers ==
    { [kind |-> "http", status |-> 400, error |-> "ExpiredToken", body |-> NoBody],
      [kind |-> "http", status |-> 401, error |-> "ExpiredToken", body |-> NoBody],
      [kind |-> "http", status |-> 400, error |-> "InvalidRequest", body |-> NoBody],
      [kind |-> "net", status |-> 0, error |-> "", body |-> NoBody] }

\* 200 with a body, or 200 with empty content (body kind "none").
OkAnswers(bodies) ==
    { [kind |-> "ok", status |-> 200, error |-> "", body |-> b] : b \in bodies \cup {NoBody} }

RefreshAnswers == {"ok", "ok_no_access", "http", "net"}
\* The answers to a refreshSession request when the last token minted is tok.
RefreshAnswersAt(tok) == IF tok < MaxTokens THEN RefreshAnswers ELSE RefreshAnswers \ {"ok"}

\* Every answer to a page request of a count-bounded paginator.
PageAnswers == OkAnswers(PageBodies) \cup ErrorAnswers

\* ------------------------------------------------------------------ request frames
NoParams == [endpoint |-> "", limit |-> 0, cursor |-> 0, uri |-> 0]

IdleFrame ==
    [ pc |-> "idle", is_retry |-> FALSE, params |-> NoParams,
      reqs |-> <<>>, refresh_calls |-> 0, nrefresh |-> 0, rtok |-> 0, minted |-> 0,
      first |-> NoAnswer, last |-> NoAnswer, result |-> NoBody, exc |-> "" ]

\* A top-level call _make_request(method, endpoint, params): is_retry is False.
CallFrame(params) == [IdleFrame EXCEPT !.pc = "enter", !.params = params]

\* requests.Response.__bool__ is Response.ok: False for every 4xx/5xx status.
ResponseTruthy(ans) == ans.kind \in {"ok", "http"} /\ ans.status < 400

\* The error code _make_request reads from an HTTP error response.
ErrCode(s, ans) ==
    IF s = "feed_based"
        THEN IF ResponseTruthy(ans) THEN ans.error ELSE ""
        ELSE ans.error

\* Whether _make_request goes on to _refresh_session after HTTP error ans.
ShouldRefreshNoRetryFlag(s, ans, is_retry) ==
    IF s = "feed_based"
        THEN ErrCode(s, ans) = "ExpiredToken"
        ELSE ans.status = 400 /\ ErrCode(s, ans) = "ExpiredToken"

ShouldRefresh(s, ans, is_retry) ==
    IF s = "feed_based"
        THEN ~is_retry /\ ErrCode(s, ans) = "ExpiredToken"
        ELSE ans.status = 400 /\ ErrCode(s, ans) = "ExpiredToken" /\ ~is_retry

\* The Authorization header of the request about to be sent: the passed-in
\* headers dict is overwritten with the session's current access token.
AuthHeaderKeepOld(frame, token) ==
    IF frame.reqs = <<>> THEN token ELSE frame.reqs[Len(frame.reqs)].auth

AuthHeader(frame, token) == token

\* _make_request up to the HTTP request: the session check, then the send.
SendFrame(frame, active, token) ==
    IF ~active
        THEN [frame EXCEPT !.pc = "raised", !.exc = "inactive"]
        ELSE [frame EXCEPT !.pc = "sent",
                           !.reqs = Append(@, [auth |-> AuthHeader(frame, token),
                                               params |-> frame.params])]

MakeRequestSend(t) ==
    /\ rq[t].pc = "enter"
    /\ script \in AuthScripts
    /\ rq' = [rq EXCEPT ![t] = SendFrame(rq[t], session_active, access_jwt)]
    /\ UNCHANGED <<script, session_active, access_jwt, refresh_jwt, srv_tok>>

\* A frame with the answer to its latest request noted.
Noted(frame, ans) ==
    [frame EXCEPT !.last = Code(ans), !.first = IF frame.is_retry THEN @ ELSE Code(ans)]

\* _refresh_session up to its HTTP request, entered from _make_request's
\* HTTPError handler: without a refresh token the session goes inactive;
\* rtok is the refresh token in the Authorization header of the
\* refreshSession request while that request is out.
RefreshStart(frame, ans, rjwt) ==
    IF rjwt = 0
        THEN [frame |-> [Noted(frame, ans) EXCEPT !.pc = "raised", !.exc = "http",
                                                  !.refresh_calls = @ + 1],
              deactivate |-> TRUE]
        ELSE [frame |-> [Noted(frame, ans) EXCEPT !.pc = "refreshing", !.refresh_calls = @ + 1,
                                                  !.nrefresh = @ + 1, !.rtok = rjwt],
              deactivate |-> FALSE]

\* _make_request from the response on: return, raise, or start a refresh.
RecvFrame(s, frame, ans, rjwt) ==
    CASE ans.kind = "ok" ->
            [frame |-> [Noted(frame, ans) EXCEPT !.pc = "returned", !.result = ans.body],
             deactivate |-> FALSE]
      [] ans.kind = "http" /\ ShouldRefresh(s, ans, frame.is_retry) ->
            RefreshStart(frame, ans, rjwt)
      [] OTHER ->
            [frame |-> [Noted(frame, ans) EXCEPT !.pc = "raised", !.exc = ans.kind],
             deactivate |-> FALSE]

MakeRequestRecv(t, answers) ==
    /\ rq[t].pc = "sent"
    /\ script \in AuthScripts
    /\ \E ans \in answers :
        LET r == RecvFrame(script, rq[t], ans, refresh_jwt)
        IN  /\ rq' = [rq EXCEPT ![t] = r.frame]
            /\ session_active' = IF r.deactivate THEN FALSE ELSE session_active
    /\ UNCHANGED <<script, access_jwt, refresh_jwt, srv_tok>>

\* _refresh_session from its response on, and _make_request's branch on its
\* result: the recursive call with is_retry=True, or the re-raise. The
\* result holds the frame and the session fields after it.
RefreshResult(s, frame, ans, active, ajwt, rjwt, tok) ==
    CASE ans = "ok" ->
            [frame |-> [frame EXCEPT !.rtok = 0, !.pc = "enter", !.is_retry = TRUE, !.minted = tok + 1],
             srv_tok |-> tok + 1, access_jwt |-> tok + 1, refresh_jwt |-> tok + 1,
             session_active |-> IF s = "feed_based" THEN TRUE ELSE active]
      [] ans = "ok_no_access" ->
            \* feed_based: data.get("accessJwt") is None, the session goes
            \* inactive; the others: data['accessJwt'] raises KeyError.
            [frame |-> [frame EXCEPT !.rtok = 0, !.pc = "raised",
                                     !.exc = IF s = "feed_based" THEN "http" ELSE "keyerror"],
             srv_tok |-> tok, access_jwt |-> IF s = "feed_based" THEN 0 ELSE ajwt,
             refresh_jwt |-> rjwt,
             session_active |-> IF s = "feed_based" THEN FALSE ELSE active]
      [] ans = "http" ->
            [frame |-> [frame EXCEPT !.rtok = 0, !.pc = "raised", !.exc = "http"],
             srv_tok |-> tok, access_jwt |-> ajwt, refresh_jwt |-> rjwt,
             session_active |-> FALSE]
      [] OTHER ->
            \* a network error: feed_based catches RequestException, the
            \* others catch only HTTPError and let it propagate.
            [frame |-> [frame EXCEPT !.rtok = 0, !.pc = "raised",
                                     !.exc = IF s = "feed_based" THEN "http" ELSE "net"],
             srv_tok |-> tok, access_jwt |-> ajwt, refresh_jwt |-> rjwt,
             session_active |-> IF s = "feed_based" THEN FALSE ELSE active]

RefreshRecv(t) ==
    /\ rq[t].pc = "refreshing"
    /\ \E ans \in RefreshAnswersAt(srv_tok) :
        LET r == RefreshResult(script, rq[t], ans, session_active, access_jwt, refresh_jwt, srv_tok)
        IN  /\ rq' = [rq EXCEPT ![t] = r.frame]
            /\ srv_tok' = r.srv_tok
            /\ access_jwt' = r.access_jwt
            /\ refresh_jwt' = r.refresh_jwt
            /\ session_active' = r.session_active
    /\ UNCHANGED script

\* make_public_request: one unauthenticated GET.
PublicSendFrame(frame) ==
    [frame EXCEPT !.pc = "sent", !.reqs = Append(@, [auth |-> 0, params |-> frame.params])]

PublicSend(t) ==
    /\ rq[t].pc = "enter"
    /\ script \notin AuthScripts
    /\ rq' = [rq EXCEPT ![t] = PublicSendFrame(rq[t])]
    /\ UNCHANGED <<script, session_active, access_jwt, refresh_jwt, srv_tok>>

\* make_public_request from the response on: the data, or on an error
\* None (feed_based_unauth, trend_based_unauth) or the exception again.
PublicRecvFrame(s, frame, ans) ==
    IF ans.kind = "ok"
        THEN [Noted(frame, ans) EXCEPT !.pc = "returned", !.result = ans.body]
        ELSE IF s \in PublicRaiseScripts
            THEN [Noted(frame, ans) EXCEPT !.pc = "raised", !.exc = ans.kind]
            ELSE [Noted(frame, ans) EXCEPT !.pc = "returned", !.result = NoBody]

PublicRecv(t, answers) ==
    /\ rq[t].pc = "sent"
    /\ script \notin AuthScripts
    /\ \E ans \in answers : rq' = [rq EXCEPT ![t] = PublicRecvFrame(script, rq[t], ans)]
    /\ UNCHANGED <<script, session_active, access_jwt, refresh_jwt, srv_tok>>

Finished(t) == rq[t].pc \in {"returned", "raised"}

\* ------------------------------------------------------------------ posts
\* A post item of a page: has_comments says whether the dict has a
\* 'comments' key yet; uri 0 is a post without a uri.
Post(id, uri, t) ==
    [id |-> id, uri |-> uri, t |-> t, has_comments |-> FALSE, comments |-> <<>>]

\* for post in posts_on_page: post['comments'] = []
InitComments(p) == [p EXCEPT !.has_comments = TRUE, !.comments = <<>>]

\* The items of a page body, numbered on from the `base` items already served.
PostsOnPage(body, base) ==
    [i \in 1 .. Len(body.items) |-> Post(base + i, base + i, body.items[i])]

\* One finished call of the request function as the paginator saw it: the
\* cursor in its params, what the loop body made of the result ("page" is a
\* page with posts), and the cursor of the response (0 when it has none).
Exchange(frame, outcome) ==
    [sent |-> frame.params.cursor, outcome |-> outcome, next |-> frame.result.cursor]

\* all_posts when the loop body is left: a page with posts has been taken
\* into it; a break (a failed request, an empty page) leaves it as it was.
AllPostsAfterDiscard(outcome, have, taken) == IF outcome = "page" THEN taken ELSE <<>>

AllPostsAfter(outcome, have, taken) == IF outcome = "page" THEN taken ELSE have

\* ------------------------------------------------------------------ count-bounded paginator
\* get_custom_feed, search_posts_advanced, get_whats_hot_classic.
\* params = {..., "limit": limit}; if cursor: params["cursor"] = cursor
PageParamsNoCursor(limit, cur) == [endpoint |-> "page", limit |-> limit, cursor |-> 0, uri |-> 0]

PageParams(limit, cur) == [endpoint |-> "page", limit |-> limit, cursor |-> cur, uri |-> 0]

\* limit = min(100, max_posts - len(all_posts))
PageLimitOfUncapped(maxp, have) == maxp - have

PageLimitOf(maxp, have) == Min(PAGE_LIMIT, maxp - have)

\* while len(all_posts) < max_posts
LoopGuardInclusive(have, maxp) == have <= maxp

LoopGuard(have, maxp) == have < maxp

\* The head of the while loop, up to the call of the request function.
PageLoop ==
    /\ pg_pc = "loop"
    /\ script \in CountScripts
    /\ IF LoopGuard(Len(all_posts), max_posts)
         THEN IF PageLimitOf(max_posts, Len(all_posts)) <= 0
                THEN /\ pg_pc' = "done"
                     /\ end_reason' = "limit"
                     /\ UNCHANGED <<rq, page_requests>>
                ELSE /\ rq' = [rq EXCEPT ![Main] =
                            CallFrame(PageParams(PageLimitOf(max_posts, Len(all_posts)), cursor))]
                     /\ page_requests' = page_requests + 1
                     /\ pg_pc' = "wait"
                     /\ UNCHANGED end_reason
         ELSE /\ pg_pc' = "done"
              /\ end_reason' = "count"
              /\ UNCHANGED <<rq, page_requests>>
    /\ UNCHANGED <<script, session_active, access_jwt, refresh_jwt, srv_tok>>
    /\ UNCHANGED <<max_posts, all_posts, cursor, page_log>>
    /\ UNCHANGED <<userVars, enrichVars, saveVars, filterVars, multiVars, equivVars>>

\* What the loop body does with the finished request: "error" (the except
\* branch), "nodata" (if not data), "empty" (no posts on the page), or the
\* page is taken.
PageOutcome(s, frame) ==
    IF frame.pc = "raised" THEN "error"
    ELSE IF frame.result.kind = "none"
        THEN IF s \in PublicNoneScripts THEN "nodata"
             ELSE IF s = "feed_based" THEN "empty"
             ELSE "error"
    ELSE IF frame.result.items = <<>> THEN "empty"
    ELSE "page"

\* all_posts.extend(posts_on_page)
Extend(have, page, maxp) == have \o page

\* The rest of the loop body, from the return of the request function on.
PageResult ==
    /\ pg_pc = "wait"
    /\ script \in CountScripts
    /\ Finished(Main)
    /\ LET out == PageOutcome(script, rq[Main])
           page == [i \in 1 .. Len(rq[Main].result.items) |->
                        InitComments(PostsOnPage(rq[Main].result, Len(all_posts))[i])]
       IN  /\ all_posts' = AllPostsAfter(out, all_posts, Extend(all_posts, page, max_posts))
           /\ IF out # "page"
             THEN /\ pg_pc' = "done"
                  /\ end_reason' = out
                  /\ UNCHANGED cursor
             ELSE /\ cursor' = rq[Main].result.cursor
                  /\ IF rq[Main].result.cursor = 0
                       THEN pg_pc' = "done" /\ end_reason' = "nocursor"
                       ELSE pg_pc' = "loop" /\ UNCHANGED end_reason
    /\ page_log' = Append(page_log, Exchange(rq[Main], PageOutcome(script, rq[Main])))
    /\ rq' = [rq EXCEPT ![Main] = IdleFrame]
    /\ UNCHANGED <<script, session_active, access_jwt, refresh_jwt, srv_tok>>
    /\ UNCHANGED <<max_posts, page_requests>>
    /\ UNCHANGED <<userVars, enrichVars, saveVars, filterVars, multiVars, equivVars>>

\* The session after create_session succeeded (or no session at all).
InitSession ==
    /\ session_active = (script \in AuthScripts)
    /\ access_jwt = IF script \in AuthScripts THEN 1 ELSE 0
    /\ refresh_jwt \in (IF script = "feed_based" THEN {0, 1}
                        ELSE IF script \in AuthScripts THEN {1} ELSE {0})
    /\ srv_tok = 1
    /\ rq = [t \in Threads |-> IdleFrame]

\* The pool variables while another part of a script is looked at.
IdleWorker == [pc |-> "idle", task |-> 0]
IdleEnrich ==
    /\ final_posts = <<>>
    /\ work_queue = <<>>
    /\ num_threads = 0
    /\ wk = [w \in Workers |-> IdleWorker]
    /\ fut = <<>>
    /\ results = <<>>
    /\ main_pc = "idle"

\* The reshape and save variables while another part of a script is looked at.
IdleSave ==
    /\ thread = NoThread
    /\ fs_dirs = {}
    /\ todo = <<>>
    /\ save_pc = "idle"
    /\ saves = <<>>

\* No side-by-side run of the author-feed implementations.
IdleEquiv == impl = <<>>

\* The outer pool of multiple_user.py while it is not looked at.
IdleMulti ==
    /\ tasks = <<>>
    /\ user_futs = <<>>
    /\ user_queue = <<>>
    /\ user_threads = 0
    /\ user_wk = <<>>
    /\ finished = <<>>
    /\ yielded = 0
    /\ handled = <<>>
    /\ multi_pc = "idle"

\* The filter prompts while another part of a script is looked at.
IdleFilter ==
    /\ filter_choice = "n"
    /\ lang_choice = ""
    /\ lower_limit_str = 0
    /\ upper_limit_str = 0

\* The author-feed variables while another part of a script is looked at.
IdleUser ==
    /\ max_posts_input = <<>>
    /\ start_time = 0
    /\ end_time = 0

InitPage ==
    /\ script \in CountScripts
    /\ InitSession
    /\ max_posts \in 0 .. MaxMaxPosts
    /\ all_posts = <<>>
    /\ cursor = 0
    /\ pg_pc = "loop"
    /\ page_requests = 0
    /\ end_reason = ""
    /\ page_log = <<>>
    /\ IdleUser
    /\ IdleEnrich
    /\ IdleSave
    /\ IdleFilter
    /\ IdleMulti
    /\ IdleEquiv

NextPage ==
    \/ PageLoop
    \/ PageResult
    \/ MakeRequestSend(Main) /\ UNCHANGED <<pageVars, userVars, enrichVars, saveVars, filterVars, multiVars, equivVars>>
    \/ MakeRequestRecv(Main, PageAnswers) /\ UNCHANGED <<pageVars, userVars, enrichVars, saveVars, filterVars, multiVars, equivVars>>
    \/ RefreshRecv(Main) /\ UNCHANGED <<pageVars, userVars, enrichVars, saveVars, filterVars, multiVars, equivVars>>
    \/ PublicSend(Main) /\ UNCHANGED <<pageVars, userVars, enrichVars, saveVars, filterVars, multiVars, equivVars>>
    \/ PublicRecv(Main, PageAnswers) /\ UNCHANGED <<pageVars, userVars, enrichVars, saveVars, filterVars, multiVars, equivVars>>

SpecPage == InitPage /\ [][NextPage]_vars

SpecPageFair == SpecPage /\ WF_vars(NextPage)

\* ------------------------------------------------------------------ author-feed paginator
\* get_all_user_posts in user_based.py, user_based_unauth.py, multiple_user.py.

\* createdAt values: two instants, and one value that does not parse (or a
\* post without createdAt).
Times == {1, 2}
BadTime == -1
\* datetime.min and datetime.max, the defaults of start_time and end_time.
TimeMin == 0
TimeMax == 3

RECURSIVE SeqsUpTo(_, _)
SeqsUpTo(S, n) ==
    IF n = 0 THEN {<<>>}
    ELSE SeqsUpTo(S, n - 1) \cup
         { Append(q, x) : q \in { r \in SeqsUpTo(S, n - 1) : Len(r) = n - 1 }, x \in S }

UserPageBodies ==
    [kind : {"page"}, items : SeqsUpTo(Times \cup {BadTime}, MaxUserPageLen), cursor : 0 .. 1,
     thread : {NoThread}]

\* Every answer to a page request of an author-feed paginator.
UserPageAnswers == OkAnswers(UserPageBodies) \cup ErrorAnswers

\* What the user may type at the max-posts prompt.
MaxPostsInputs == {<<>>, <<"x">>, <<"0">>, <<"1">>, <<"0", "2">>, <<"2", "x">>}

DigitChars == {"0", "1", "2", "3", "4", "5", "6", "7", "8", "9"}

DigitVal(c) ==
    CASE c = "0" -> 0 [] c = "1" -> 1 [] c = "2" -> 2 [] c = "3" -> 3 [] c = "4" -> 4
      [] c = "5" -> 5 [] c = "6" -> 6 [] c = "7" -> 7 [] c = "8" -> 8 [] OTHER -> 9

\* str.isdigit(): non-empty and all digits.
IsDigit(s) == s # <<>> /\ \A i \in 1 .. Len(s) : s[i] \in DigitChars

\* int(s) for a digit string.
RECURSIVE IntOf(_)
IntOf(s) ==
    IF s = <<>> THEN 0
    ELSE 10 * IntOf(SubSeq(s, 1, Len(s) - 1)) + DigitVal(s[Len(s)])

\* The encoding of max_posts=None.
NoLimit == -1

\* max_posts = int(max_posts_input) if max_posts_input.isdigit() else None
ParseMaxPosts(s) == IF IsDigit(s) THEN IntOf(s) ELSE NoLimit

\* `if max_posts and len(all_posts) >= max_posts`: None and 0 are falsy.
LimitReached(maxp, have) == maxp # NoLimit /\ maxp # 0 /\ have >= maxp

\* if start_time is None: start_time = datetime.min ...
StartOf(st) == IF st = 0 THEN TimeMin ELSE st
EndOf(et) == IF et = 0 THEN TimeMax ELSE et

\* The for loop over one page: acc is all_posts so far, i the next index;
\* the result is the new all_posts and whether the function returned from
\* inside the loop ("limit", "older") or ran through ("").
\* user_based.py and multiple_user.py: the range test first, then the
\* older-than-start test.
RECURSIVE ProcessPageAuth(_, _, _, _, _, _)
ProcessPageAuth(posts, i, acc, st, et, maxp) ==
    IF i > Len(posts) THEN [posts |-> acc, stop |-> ""]
    ELSE LET p == posts[i] IN
         IF p.t = BadTime THEN ProcessPageAuth(posts, i + 1, acc, st, et, maxp)
         ELSE IF st <= p.t /\ p.t <= et
             THEN IF LimitReached(maxp, Len(acc) + 1)
                    THEN [posts |-> Append(acc, InitComments(p)), stop |-> "limit"]
                    ELSE ProcessPageAuth(posts, i + 1, Append(acc, InitComments(p)), st, et, maxp)
         ELSE IF p.t < st THEN [posts |-> acc, stop |-> "older"]
         ELSE ProcessPageAuth(posts, i + 1, acc, st, et, maxp)

\* user_based_unauth.py: the older-than-start test first, then the range test.
RECURSIVE ProcessPageUnauthRangeOnly(_, _, _, _, _, _)
ProcessPageUnauthRangeOnly(posts, i, acc, st, et, maxp) ==
    IF i > Len(posts) THEN [posts |-> acc, stop |-> ""]
    ELSE LET p == posts[i] IN
         IF p.t = BadTime THEN ProcessPageUnauthRangeOnly(posts, i + 1, acc, st, et, maxp)
         ELSE IF st <= p.t /\ p.t <= et
             THEN IF LimitReached(maxp, Len(acc) + 1)
                    THEN [posts |-> Append(acc, InitComments(p)), stop |-> "limit"]
                    ELSE ProcessPageUnauthRangeOnly(posts, i + 1, Append(acc, InitComments(p)),
                                                    st, et, maxp)
         ELSE ProcessPageUnauthRangeOnly(posts, i + 1, acc, st, et, maxp)

RECURSIVE ProcessPageUnauth(_, _, _, _, _, _)
ProcessPageUnauth(posts, i, acc, st, et, maxp) ==
    IF i > Len(posts) THEN [posts |-> acc, stop |-> ""]
    ELSE LET p == posts[i] IN
         IF p.t = BadTime THEN ProcessPageUnauth(posts, i + 1, acc, st, et, maxp)
         ELSE IF p.t < st THEN [posts |-> acc, stop |-> "older"]
         ELSE IF st <= p.t /\ p.t <= et
             THEN IF LimitReached(maxp, Len(acc) + 1)
                    THEN [posts |-> Append(acc, InitComments(p)), stop |-> "limit"]
                    ELSE ProcessPageUnauth(posts, i + 1, Append(acc, InitComments(p)), st, et, maxp)
         ELSE ProcessPageUnauth(posts, i + 1, acc, st, et, maxp)

ProcessPage(s, posts, acc, st, et, maxp) ==
    IF s = "user_based_unauth"
        THEN ProcessPageUnauth(posts, 1, acc, st, et, maxp)
        ELSE ProcessPageAuth(posts, 1, acc, st, et, maxp)

UserParams(cur) == [endpoint |-> "authorfeed", limit |-> 100, cursor |-> cur, uri |-> 0]

\* The head of the while True loop, up to the call of the request function.
UserLoop ==
    /\ pg_pc = "loop"
    /\ script \in UserScripts
    /\ page_requests < MaxUserPages
    /\ rq' = [rq EXCEPT ![Main] = CallFrame(UserParams(cursor))]
    /\ page_requests' = page_requests + 1
    /\ pg_pc' = "wait"
    /\ UNCHANGED <<script, session_active, access_jwt, refresh_jwt, srv_tok>>
    /\ UNCHANGED <<max_posts, all_posts, cursor, end_reason, page_log>>
    /\ UNCHANGED <<userVars, enrichVars, saveVars, filterVars, multiVars, equivVars>>

\* What the loop body does with the finished request; a None response makes
\* response.get raise, which the except branch catches.
UserOutcome(frame) ==
    IF frame.pc = "raised" THEN "error"
    ELSE IF frame.result.kind = "none" THEN "error"
    ELSE IF frame.result.items = <<>> THEN "empty"
    ELSE "page"

\* The items of an author-feed page, numbered by page and position.
UserPostsOnPage(body, page) ==
    [i \in 1 .. Len(body.items) |-> Post(10 * page + i, 10 * page + i, body.items[i])]

\* The body of the while True loop from the return of the request function
\* (frame) on, for script s with all_posts = have and cursor = cur on its
\* page_no-th request: the new all_posts and cursor, and why the loop is
\* left ("" when it goes round again).
UserLoopBody(s, frame, have, cur, page_no, st, et, maxp) ==
    LET out == UserOutcome(frame)
        res == ProcessPage(s, UserPostsOnPage(frame.result, page_no), have,
                           StartOf(st), EndOf(et), maxp)
    IN  [posts |-> AllPostsAfter(out, have, res.posts),
         cursor |-> IF out = "page" /\ res.stop = "" THEN frame.result.cursor ELSE cur,
         stop |-> IF out # "page" THEN out
                  ELSE IF res.stop # "" THEN res.stop
                  ELSE IF frame.result.cursor = 0 THEN "nocursor"
                  ELSE ""]

\* The rest of the loop body, from the return of the request function on.
UserResult ==
    /\ pg_pc = "wait"
    /\ script \in UserScripts
    /\ Finished(Main)
    /\ LET r == UserLoopBody(script, rq[Main], all_posts, cursor, page_requests,
                             start_time, end_time, max_posts)
       IN  /\ all_posts' = r.posts
           /\ cursor' = r.cursor
           /\ IF r.stop # ""
                THEN pg_pc' = "done" /\ end_reason' = r.stop
                ELSE pg_pc' = "loop" /\ UNCHANGED end_reason
    /\ page_log' = Append(page_log, Exchange(rq[Main], UserOutcome(rq[Main])))
    /\ rq' = [rq EXCEPT ![Main] = [IdleFrame EXCEPT !.result = rq[Main].result]]
    /\ UNCHANGED <<script, session_active, access_jwt, refresh_jwt, srv_tok>>
    /\ UNCHANGED <<max_posts, page_requests>>
    /\ UNCHANGED <<userVars, enrichVars, saveVars, filterVars, multiVars, equivVars>>

InitUser ==
    /\ script \in UserScripts
    /\ InitSession
    /\ max_posts_input \in MaxPostsInputs
    /\ max_posts = ParseMaxPosts(max_posts_input)
    /\ start_time \in {0, 2}
    /\ end_time \in {0, 1, 2}
    /\ all_posts = <<>>
    /\ cursor = 0
    /\ pg_pc = "loop"
    /\ page_requests = 0
    /\ end_reason = ""
    /\ page_log = <<>>
    /\ IdleEnrich
    /\ IdleSave
    /\ IdleFilter
    /\ IdleMulti
    /\ IdleEquiv

NextUser ==
    \/ UserLoop
    \/ UserResult
    \/ MakeRequestSend(Main) /\ UNCHANGED <<pageVars, userVars, enrichVars, saveVars, filterVars, multiVars, equivVars>>
    \/ MakeRequestRecv(Main, UserPageAnswers) /\ UNCHANGED <<pageVars, userVars, enrichVars, saveVars, filterVars, multiVars, equivVars>>
    \/ RefreshRecv(Main) /\ UNCHANGED <<pageVars, userVars, enrichVars, saveVars, filterVars, multiVars, equivVars>>
    \/ PublicSend(Main) /\ UNCHANGED <<pageVars, userVars, enrichVars, saveVars, filterVars, multiVars, equivVars>>
    \/ PublicRecv(Main, UserPageAnswers) /\ UNCHANGED <<pageVars, userVars, enrichVars, saveVars, filterVars, multiVars, equivVars>>

SpecUser == InitUser /\ [][NextUser]_vars

\* ------------------------------------------------------------------ every paginator
\* The six paginators side by side: each run is one script's paginator
\* with the answers of its endpoint.
AnswersFor(s) == IF s \in UserScripts THEN UserPageAnswers ELSE PageAnswers

\* The author-feed runs here are those without a limit and with limit 1.
InitPaginators == InitPage \/ (InitUser /\ max_posts_input \in {<<>>, <<"1">>})

NextPaginators ==
    \/ PageLoop
    \/ PageResult
    \/ UserLoop
    \/ UserResult
    \/ MakeRequestSend(Main) /\ UNCHANGED <<pageVars, userVars, enrichVars, saveVars, filterVars, multiVars, equivVars>>
    \/ MakeRequestRecv(Main, AnswersFor(script))
          /\ UNCHANGED <<pageVars, userVars, enrichVars, saveVars, filterVars, multiVars, equivVars>>
    \/ RefreshRecv(Main) /\ UNCHANGED <<pageVars, userVars, enrichVars, saveVars, filterVars, multiVars, equivVars>>
    \/ PublicSend(Main) /\ UNCHANGED <<pageVars, userVars, enrichVars, saveVars, filterVars, multiVars, equivVars>>
    \/ PublicRecv(Main, AnswersFor(script))
          /\ UNCHANGED <<pageVars, userVars, enrichVars, saveVars, filterVars, multiVars, equivVars>>

SpecPaginators == InitPaginators /\ [][NextPaginators]_vars

\* ------------------------------------------------------------------ comment enrichment
\* get_post_thread, fetch_comments_and_replies and the block
\*     with ThreadPoolExecutor(max_workers=MAX_WORKERS) as executor:
\*         results = list(executor.map(fetch_comments_and_replies, final_posts))

\* A reply under a comment: its post (0: the dict has no 'post' key) and
\* whether the server nested further replies under it.
ReplyThread(post, deeper) == [post |-> post, deeper |-> deeper]

\* The i-th top-level reply of a thread. The three shapes the server sends:
\* a comment with two replies (one of them with deeper nesting and one
\* without a 'post'), a comment without a 'replies' key, a comment whose
\* 'replies' is empty and which has no 'post'.
CommentThread(i) ==
    CASE i % 3 = 1 -> [post |-> 10 * i, has_replies |-> TRUE,
                       replies |-> <<ReplyThread(10 * i + 1, TRUE), ReplyThread(0, FALSE)>>]
      [] i % 3 = 2 -> [post |-> 10 * i, has_replies |-> FALSE, replies |-> <<>>]
      [] OTHER     -> [post |-> 0, has_replies |-> TRUE, replies |-> <<>>]

\* A thread with n top-level replies.
ThreadOfLen(n) ==
    [kind |-> "thread", has_replies |-> TRUE, replies |-> [i \in 1 .. n |-> CommentThread(i)]]

\* A response without a 'thread' key, and a thread without a 'replies' key.
EmptyThread == [kind |-> "empty", has_replies |-> FALSE, replies |-> <<>>]
BareThread == [kind |-> "thread", has_replies |-> FALSE, replies |-> <<>>]

ThreadBody(th) == [kind |-> "thread", items |-> <<>>, cursor |-> 0, thread |-> th]

\* The threads getPostThread answers with while the pool runs: one without
\* replies and one with more replies than are kept.
ThreadBodies == {ThreadBody(BareThread), ThreadBody(ThreadOfLen(MAX_COMMENTS_PER_POST + 1))}

\* Every answer to a getPostThread request.
ThreadAnswers ==
    OkAnswers(ThreadBodies)
        \cup { a \in ErrorAnswers : a.kind = "net" \/ (a.status = 400 /\ a.error = "ExpiredToken") }

\* The answers of a server on which no token expires: a thread, empty
\* content, or a network error.
UnexpiredThreadAnswers == { a \in ThreadAnswers : a.kind # "http" }

\* params = {"uri": post_uri, "depth": 2}
ThreadParams(post_uri) == [endpoint |-> "thread", limit |-> 0, cursor |-> 0, uri |-> post_uri]

\* What get_post_thread returns for a finished request: None (NoThread) when
\* the request raised or gave no data, else data.get('thread', {}).
GetPostThreadResult(frame) ==
    IF frame.pc = "raised" THEN NoThread
    ELSE IF frame.result.kind = "none" THEN NoThread
    ELSE frame.result.thread

\* thread['replies'][:MAX_COMMENTS_PER_POST]
KeepAllComments(replies) == replies

SliceComments(replies) == SubSeq(replies, 1, Min(Len(replies), MAX_COMMENTS_PER_POST))

\* The inner loop: structured_comment["replies"].append(reply_thread.get('post', {})),
\* from the j-th reply on.
RECURSIVE AppendReplies(_, _, _)
AppendReplies(replies, rts, j) ==
    IF j > Len(rts) THEN replies
    ELSE AppendReplies(Append(replies, rts[j].post), rts, j + 1)

\* structured_comment = {"post": comment_thread.get('post', {}), "replies": []},
\* filled by the inner loop when the comment has a 'replies' key;
\* user_based_unauth.py builds the list with a comprehension over
\* comment_thread.get('replies', []) instead.
StructureComment(s, ct) ==
    IF s = "user_based_unauth"
        THEN [post |-> ct.post,
              replies |-> LET rts == IF ct.has_replies THEN ct.replies ELSE <<>>
                          IN  [j \in 1 .. Len(rts) |-> rts[j].post]]
        ELSE [post |-> ct.post,
              replies |-> IF ct.has_replies THEN AppendReplies(<<>>, ct.replies, 1) ELSE <<>>]

\* The for loop: post_item['comments'].append(structured_comment), from the
\* i-th comment thread on.
RECURSIVE AppendComments(_, _, _, _)
AppendComments(s, comments, cts, i) ==
    IF i > Len(cts) THEN comments
    ELSE AppendComments(s, Append(comments, StructureComment(s, cts[i])), cts, i + 1)

\* fetch_comments_and_replies from the return of get_post_thread on.
ApplyThread(s, post_item, th) ==
    IF th.kind = "thread" /\ th.has_replies
        THEN [post_item EXCEPT !.comments = AppendComments(s, @, SliceComments(th.replies), 1)]
        ELSE post_item

\* A future: pending, running or done; result is the reference the task
\* returned; calls counts the task's calls of get_post_thread, and failed
\* says that get_post_thread returned None.
NewFuture == [state |-> "pending", result |-> 0, calls |-> 0, failed |-> FALSE]

\* ThreadPoolExecutor._adjust_thread_count: a submit starts a thread while
\* fewer than max_workers exist.
ShouldSpawnUncapped(nthreads) == TRUE

ShouldSpawn(nthreads) == nthreads < MAX_WORKERS

\* Which future the result iterator of executor.map yields next: the
\* futures in submission order, each waited for.
NextResultAsCompleted(res, futs) ==
    { i \in 1 .. Len(futs) : futs[i].state = "done" /\ \A k \in 1 .. Len(res) : res[k] # futs[i].result }

NextResult(res, futs) ==
    { i \in {Len(res) + 1} : i <= Len(futs) /\ futs[i].state = "done" }

\* executor.map submits one task per post, in list order, before it yields.
Submit ==
    /\ main_pc = "submit"
    /\ LET i == Len(fut) + 1
       IN  /\ fut' = Append(fut, NewFuture)
           /\ work_queue' = Append(work_queue, i)
           /\ num_threads' = IF ShouldSpawn(num_threads) THEN num_threads + 1 ELSE num_threads
           /\ main_pc' = IF i = Len(final_posts) THEN "collect" ELSE "submit"
    /\ UNCHANGED <<final_posts, wk, results>>
    /\ UNCHANGED <<sessVars, pageVars, userVars, saveVars, filterVars, multiVars, equivVars>>

\* The request function of a script up to its HTTP request.
StartRequest(s, frame, active, token) ==
    IF s \in AuthScripts THEN SendFrame(frame, active, token) ELSE PublicSendFrame(frame)

\* The rest of fetch_comments_and_replies for task i, once the request frame
\* of get_post_thread has finished: the comments are appended to the post
\* dict, and the dict is the task's result.
PostsAfterSharedList(i, frame) ==
    [final_posts EXCEPT ![1] = ApplyThread(script, @, GetPostThreadResult(frame))]

PostsAfter(i, frame) ==
    [final_posts EXCEPT ![i] = ApplyThread(script, @, GetPostThreadResult(frame))]

FutureAfter(futs, i, frame) ==
    [futs EXCEPT ![i].state = "done", ![i].result = i,
                 ![i].failed = (GetPostThreadResult(frame) = NoThread)]

\* Worker w goes on with task i, whose request frame is now `frame` and
\* whose futures are `futs`: the task ends when the frame has finished.
WorkerStep(w, i, frame, futs) ==
    IF frame.pc \in {"returned", "raised"}
        THEN /\ final_posts' = PostsAfter(i, frame)
             /\ fut' = FutureAfter(futs, i, frame)
             /\ wk' = [wk EXCEPT ![w] = IdleWorker]
             /\ rq' = [rq EXCEPT ![w] = IdleFrame]
        ELSE /\ fut' = [futs EXCEPT ![i].state = "running"]
             /\ wk' = [wk EXCEPT ![w] = [pc |-> "fetch", task |-> i]]
             /\ rq' = [rq EXCEPT ![w] = frame]
             /\ UNCHANGED final_posts

\* A worker thread takes a task and runs fetch_comments_and_replies up to
\* the HTTP request of get_post_thread; a post without uri is returned at once.
WorkerTake(w) ==
    /\ w <= num_threads
    /\ wk[w].pc = "idle"
    /\ work_queue # <<>>
    /\ LET i == Head(work_queue)
           post_uri == final_posts[i].uri
       IN  /\ work_queue' = Tail(work_queue)
           /\ IF post_uri = 0
                THEN /\ fut' = [fut EXCEPT ![i].state = "done", ![i].result = i]
                     /\ UNCHANGED <<final_posts, wk, rq>>
                ELSE WorkerStep(w, i, StartRequest(script, CallFrame(ThreadParams(post_uri)),
                                                   session_active, access_jwt),
                                [fut EXCEPT ![i].calls = @ + 1])
    /\ UNCHANGED <<num_threads, results, main_pc>>
    /\ UNCHANGED <<script, session_active, access_jwt, refresh_jwt, srv_tok>>
    /\ UNCHANGED <<pageVars, userVars, saveVars, filterVars, multiVars, equivVars>>

\* The response to a worker's getPostThread request arrives, one of `answers`.
WorkerRecv(w, answers) ==
    /\ wk[w].pc = "fetch"
    /\ rq[w].pc = "sent"
    /\ \E ans \in answers :
        IF script \in AuthScripts
            THEN LET r == RecvFrame(script, rq[w], ans, refresh_jwt)
                 IN  /\ WorkerStep(w, wk[w].task, r.frame, fut)
                     /\ session_active' = IF r.deactivate THEN FALSE ELSE session_active
            ELSE /\ WorkerStep(w, wk[w].task, PublicRecvFrame(script, rq[w], ans), fut)
                 /\ UNCHANGED session_active
    /\ UNCHANGED <<work_queue, num_threads, results, main_pc>>
    /\ UNCHANGED <<script, access_jwt, refresh_jwt, srv_tok>>
    /\ UNCHANGED <<pageVars, userVars, saveVars, filterVars, multiVars, equivVars>>

\* The response to a worker's refreshSession request arrives.
WorkerRefreshRecv(w) ==
    /\ wk[w].pc = "fetch"
    /\ rq[w].pc = "refreshing"
    /\ \E ans \in RefreshAnswersAt(srv_tok) :
        LET r == RefreshResult(script, rq[w], ans, session_active, access_jwt, refresh_jwt, srv_tok)
        IN  /\ WorkerStep(w, wk[w].task, r.frame, fut)
            /\ srv_tok' = r.srv_tok
            /\ access_jwt' = r.access_jwt
            /\ refresh_jwt' = r.refresh_jwt
            /\ session_active' = r.session_active
    /\ UNCHANGED <<work_queue, num_threads, results, main_pc>>
    /\ UNCHANGED script
    /\ UNCHANGED <<pageVars, userVars, saveVars, filterVars, multiVars, equivVars>>

\* The recursive _make_request call after a refresh, up to its HTTP request.
WorkerRetry(w) ==
    /\ wk[w].pc = "fetch"
    /\ rq[w].pc = "enter"
    /\ WorkerStep(w, wk[w].task, SendFrame(rq[w], session_active, access_jwt), fut)
    /\ UNCHANGED <<work_queue, num_threads, results, main_pc>>
    /\ UNCHANGED <<script, session_active, access_jwt, refresh_jwt, srv_tok>>
    /\ UNCHANGED <<pageVars, userVars, saveVars, filterVars, multiVars, equivVars>>

\* list(...) runs the result iterator to its end: one result per post.
AllCollectedAfterFirst(nresults, nposts) == nresults >= 1

AllCollected(nresults, nposts) == nresults = nposts

\* list(...) takes the next result; after the last one the with block ends
\* and the script goes on to its save step.
Collect ==
    /\ main_pc = "collect"
    /\ \E i \in NextResult(results, fut) :
        /\ results' = Append(results, fut[i].result)
        /\ main_pc' = IF AllCollected(Len(results) + 1, Len(final_posts)) THEN "save" ELSE "collect"
    /\ UNCHANGED <<final_posts, work_queue, num_threads, wk, fut>>
    /\ UNCHANGED <<sessVars, pageVars, userVars, saveVars, filterVars, multiVars, equivVars>>

\* The posts a paginator hands over: each with a 'comments' list that is
\* still empty, some without a uri.
EnrichInputs ==
    UNION { [1 .. n -> {InitComments(Post(0, u, 0)) : u \in {0, 1}}] : n \in 1 .. MaxEnrichPosts }

InitEnrich ==
    /\ script \in EnrichScripts
    /\ InitSession
    /\ max_posts = 0
    /\ all_posts = <<>>
    /\ cursor = 0
    /\ pg_pc = "done"
    /\ page_requests = 0
    /\ end_reason = ""
    /\ page_log = <<>>
    /\ IdleUser
    /\ \E inp \in EnrichInputs :
          final_posts = [i \in 1 .. Len(inp) |->
                            [inp[i] EXCEPT !.id = i, !.uri = IF inp[i].uri = 0 THEN 0 ELSE i]]
    /\ work_queue = <<>>
    /\ num_threads = 0
    /\ wk = [w \in Workers |-> IdleWorker]
    /\ fut = <<>>
    /\ results = <<>>
    /\ main_pc = "submit"
    /\ IdleSave
    /\ IdleFilter
    /\ IdleMulti
    /\ IdleEquiv

NextEnrich ==
    \/ Submit
    \/ Collect
    \/ \E w \in Workers : WorkerTake(w)
    \/ \E w \in Workers : WorkerRecv(w, ThreadAnswers)
    \/ \E w \in Workers : WorkerRefreshRecv(w)
    \/ \E w \in Workers : WorkerRetry(w)

SpecEnrich == InitEnrich /\ [][NextEnrich]_vars

\* Every request is answered in the end and every thread keeps running.
SpecEnrichFair == SpecEnrich /\ WF_vars(NextEnrich)

\* ------------------------------------------------------------------ reshaping one thread
\* fetch_comments_and_replies applied to one post and one thread.

\* The replies under a comment, and the comment threads, a thread is built from.
ReplyThreads == {ReplyThread(0, FALSE), ReplyThread(7, TRUE)}
CommentThreads ==
    { [post |-> 1, has_replies |-> TRUE, replies |-> rs] : rs \in SeqsUpTo(ReplyThreads, MaxReplyLen) }
    \cup { [post |-> p, has_replies |-> FALSE, replies |-> <<>>] : p \in {0, 1} }

\* What get_post_thread can return: None, {}, a thread without 'replies', and
\* threads with up to MaxThreadReplies top-level replies.
ThreadInputs ==
    {NoThread, EmptyThread, BareThread}
    \cup { [kind |-> "thread", has_replies |-> TRUE, replies |-> cts] :
             cts \in SeqsUpTo(CommentThreads, MaxThreadReplies) }

\* The two texts of the reshaping code: the loops of feed_based.py (the same
\* in every other script) and the comprehension of user_based_unauth.py.
ReshapeScripts == {"feed_based", "user_based_unauth"}

ReshapeThread ==
    /\ main_pc = "reshape"
    /\ final_posts' = [final_posts EXCEPT ![1] = ApplyThread(script, @, thread)]
    /\ main_pc' = "save"
    /\ UNCHANGED <<work_queue, num_threads, wk, fut, results>>
    /\ UNCHANGED <<sessVars, pageVars, userVars, saveVars, filterVars, multiVars, equivVars>>

InitReshape ==
    /\ script \in ReshapeScripts
    /\ InitSession
    /\ max_posts = 0
    /\ all_posts = <<>>
    /\ cursor = 0
    /\ pg_pc = "done"
    /\ page_requests = 0
    /\ end_reason = ""
    /\ page_log = <<>>
    /\ IdleUser
    /\ final_posts = <<InitComments(Post(1, 1, 0))>>
    /\ work_queue = <<>>
    /\ num_threads = 0
    /\ wk = [w \in Workers |-> IdleWorker]
    /\ fut = <<>>
    /\ results = <<>>
    /\ main_pc = "reshape"
    /\ thread \in ThreadInputs
    /\ fs_dirs = {}
    /\ todo = <<>>
    /\ save_pc = "idle"
    /\ saves = <<>>
    /\ IdleFilter
    /\ IdleMulti
    /\ IdleEquiv

NextReshape == ReshapeThread

SpecReshape == InitReshape /\ [][NextReshape]_vars

\* ------------------------------------------------------------------ save step
\* The block at the end of each script that writes the collection to
\*     <output directory>/<name>_<timestamp>.json

AllScripts == AuthScripts \cup PublicNoneScripts \cup PublicRaiseScripts

\* The directories the scripts name.
Dirs ==
    {"feed_model", "feed_model_unauth", "search_model", "trending_model",
     "user_model", "user_model_unauth", "multiple_user"}

\* The directory passed to os.makedirs(..., exist_ok=True).
OutputDir(s) ==
    CASE s = "feed_based" -> "feed_model"
      [] s = "feed_based_unauth" -> "feed_model_unauth"
      [] s = "search_based" -> "search_model"
      [] s \in {"trend_based", "trend_based_unauth"} -> "trending_model"
      [] s = "user_based" -> "user_model"
      [] s = "user_based_unauth" -> "user_model_unauth"
      [] OTHER -> "multiple_user"

\* os.path.dirname of the filename passed to open(filename, 'w').
FileDir(s) ==
    CASE s = "feed_based" -> "feed_model"
      [] s = "feed_based_unauth" -> "feed_model_unauth"
      [] s = "search_based" -> "search_model"
      [] s \in {"trend_based", "trend_based_unauth"} -> "trending_model"
      [] s = "user_based" -> "user_model"
      [] s = "user_based_unauth" -> "user_model_unauth"
      [] OTHER -> "user_model"

\* if final_posts: (multiple_user.py: if not posts: continue) -- an empty
\* collection is not saved.
SaveCheck ==
    /\ save_pc = "check"
    /\ IF todo = <<>>
         THEN save_pc' = "done" /\ UNCHANGED todo
         ELSE IF Head(todo) = 0
           THEN save_pc' = "check" /\ todo' = Tail(todo)
           ELSE save_pc' = "mkdir" /\ UNCHANGED todo
    /\ UNCHANGED <<thread, fs_dirs, saves>>
    /\ UNCHANGED <<sessVars, pageVars, userVars, enrichVars, filterVars, multiVars, equivVars>>

\* os.makedirs(output_dir, exist_ok=True)
MakeDirs ==
    /\ save_pc = "mkdir"
    /\ fs_dirs' = fs_dirs \cup {OutputDir(script)}
    /\ save_pc' = "open"
    /\ UNCHANGED <<thread, todo, saves>>
    /\ UNCHANGED <<sessVars, pageVars, userVars, enrichVars, filterVars, multiVars, equivVars>>

\* with open(filename, 'w', ...) inside try/except: the open fails with
\* FileNotFoundError when the directory of filename does not exist, which
\* the except branch prints.
OpenFile ==
    /\ save_pc = "open"
    /\ saves' = Append(saves, IF FileDir(script) \in fs_dirs THEN "saved" ELSE "missing_dir")
    /\ todo' = Tail(todo)
    /\ save_pc' = "check"
    /\ UNCHANGED <<thread, fs_dirs>>
    /\ UNCHANGED <<sessVars, pageVars, userVars, enrichVars, filterVars, multiVars, equivVars>>

\* One collection per run, or one per handle in multiple_user.py; each is
\* empty (0) or not (1). Any of the directories may exist beforehand.
InitSave ==
    /\ script \in AllScripts
    /\ InitSession
    /\ max_posts = 0
    /\ all_posts = <<>>
    /\ cursor = 0
    /\ pg_pc = "done"
    /\ page_requests = 0
    /\ end_reason = ""
    /\ page_log = <<>>
    /\ IdleUser
    /\ IdleEnrich
    /\ thread = NoThread
    /\ fs_dirs \in SUBSET Dirs
    /\ todo \in (IF script = "multiple_user"
                   THEN SeqsUpTo({0, 1}, MaxHandles) \ {<<>>}
                   ELSE {<<0>>, <<1>>})
    /\ save_pc = "check"
    /\ saves = <<>>
    /\ IdleFilter
    /\ IdleMulti
    /\ IdleEquiv

NextSave ==
    \/ SaveCheck
    \/ MakeDirs
    \/ OpenFile

SpecSave == InitSave /\ [][NextSave]_vars

\* ------------------------------------------------------------------ filters of the main blocks
\* The filters the __main__ blocks apply to the fetched list before the
\* URLs are added and the pool is started.

\* The createdAt of a fetched post: an instant, BadTime (a string that
\* datetime.fromisoformat rejects), or NoCreatedAt (no key, or "").
NoCreatedAt == 0

\* Longest fetched list that is filtered.
MaxFetched == 3

\* The list a count-bounded paginator returned, with the createdAt values
\* the server put into it.
FetchedPosts(times) ==
    [i \in 1 .. Len(times) |-> InitComments(Post(i, i, times[i]))]

\* The result of a filter loop: the list built, and whether an exception
\* left the loop.
\* feed_based.py, trend_based.py, trend_based_unauth.py:
\*     for post in feed_posts:
\*         created_at_str = post.get('post', {}).get('record', {}).get('createdAt')
\*         if created_at_str:
\*             post_time = datetime.fromisoformat(...)
\*             if (start_time is None or post_time >= start_time) and
\*                (end_time is None or post_time <= end_time): final_posts.append(post)
InRangeExclusive(t, st, et) == (st = 0 \/ t > st) /\ (et = 0 \/ t < et)

InRange(t, st, et) == (st = 0 \/ t >= st) /\ (et = 0 \/ t <= et)

RECURSIVE TimestampLoop(_, _, _, _, _)
TimestampLoop(posts, i, acc, st, et) ==
    IF i > Len(posts) THEN [posts |-> acc, raised |-> FALSE]
    ELSE LET t == posts[i].t IN
         IF t = NoCreatedAt THEN TimestampLoop(posts, i + 1, acc, st, et)
         ELSE IF t = BadTime THEN [posts |-> acc, raised |-> TRUE]
         ELSE IF InRange(t, st, et)
             THEN TimestampLoop(posts, i + 1, Append(acc, posts[i]), st, et)
             ELSE TimestampLoop(posts, i + 1, acc, st, et)

\* The scripts whose __main__ has the timestamp prompt and loop.
TimestampScripts == {"feed_based", "trend_based", "trend_based_unauth"}

\* The filter block of these scripts; an exception in the loop is caught
\* nowhere and ends the run.
TimestampFilter ==
    /\ main_pc = "filter"
    /\ script \in TimestampScripts
    /\ IF filter_choice = "y"
         THEN LET r == TimestampLoop(all_posts, 1, <<>>, start_time, end_time)
              IN  IF r.raised
                    THEN main_pc' = "aborted" /\ UNCHANGED final_posts
                    ELSE main_pc' = "enrich" /\ final_posts' = r.posts
         ELSE main_pc' = "enrich" /\ final_posts' = all_posts
    /\ UNCHANGED <<work_queue, num_threads, wk, fut, results>>
    /\ UNCHANGED <<sessVars, pageVars, userVars, saveVars, filterVars, multiVars, equivVars>>

\* feed_based_unauth.py: final_posts = feed_posts; the script has no prompt
\* for a range, filter_choice and the times are what the user wants.
NoFilter ==
    /\ main_pc = "filter"
    /\ script = "feed_based_unauth"
    /\ final_posts' = all_posts
    /\ main_pc' = "enrich"
    /\ UNCHANGED <<work_queue, num_threads, wk, fut, results>>
    /\ UNCHANGED <<sessVars, pageVars, userVars, saveVars, filterVars, multiVars, equivVars>>

IdlePage ==
    /\ max_posts = 0
    /\ cursor = 0
    /\ pg_pc = "done"
    /\ page_requests = 0
    /\ end_reason = ""
    /\ page_log = <<>>

InitFilter ==
    /\ script \in TimestampScripts \cup {"feed_based_unauth"}
    /\ InitSession
    /\ IdlePage
    /\ all_posts \in { FetchedPosts(ts) : ts \in SeqsUpTo(Times \cup {BadTime, NoCreatedAt}, MaxFetched) }
    /\ max_posts_input = <<>>
    /\ start_time \in {0} \cup Times
    /\ end_time \in {0} \cup Times
    /\ final_posts = <<>>
    /\ work_queue = <<>>
    /\ num_threads = 0
    /\ wk = [w \in Workers |-> IdleWorker]
    /\ fut = <<>>
    /\ results = <<>>
    /\ main_pc = "filter"
    /\ IdleSave
    /\ filter_choice \in {"y", "n"}
    /\ lang_choice = ""
    /\ lower_limit_str = 0
    /\ upper_limit_str = 0
    /\ IdleMulti
    /\ IdleEquiv

NextFilter ==
    \/ TimestampFilter
    \/ NoFilter

SpecFilter == InitFilter /\ [][NextFilter]_vars

\* ------------------------------------------------------------------ a whole run
\* A script from its first statement: create_session, then everything up to
\* the final collection (the paginator, the filters and the pool above,
\* here one step), then the save step.

\* The answers to createSession: 200 with both tokens, 200 without
\* accessJwt, 200 without refreshJwt, an HTTP error, a network error.
CreateAnswers == {"ok", "ok_no_access", "ok_no_refresh", "http", "net"}

\* create_session: the session fields after it and how it ends ("true",
\* "false", or "raised" for an exception that leaves it). feed_based.py
\* reads the tokens with data.get and catches RequestException; the others
\* index data[...] and catch only HTTPError.
CreateSessionResult(s, ans) ==
    IF s = "feed_based"
        THEN CASE ans = "ok" ->
                    [ret |-> "true", access_jwt |-> 1, refresh_jwt |-> 1, session_active |-> TRUE]
               [] ans = "ok_no_refresh" ->
                    [ret |-> "true", access_jwt |-> 1, refresh_jwt |-> 0, session_active |-> TRUE]
               [] ans = "ok_no_access" ->
                    [ret |-> "false", access_jwt |-> 0, refresh_jwt |-> 1, session_active |-> FALSE]
               [] OTHER ->
                    [ret |-> "false", access_jwt |-> 0, refresh_jwt |-> 0, session_active |-> FALSE]
        ELSE CASE ans = "ok" ->
                    [ret |-> "true", access_jwt |-> 1, refresh_jwt |-> 1, session_active |-> TRUE]
               [] ans = "ok_no_refresh" ->
                    [ret |-> "raised", access_jwt |-> 1, refresh_jwt |-> 0, session_active |-> FALSE]
               [] ans = "http" ->
                    [ret |-> "false", access_jwt |-> 0, refresh_jwt |-> 0, session_active |-> FALSE]
               [] OTHER ->
                    [ret |-> "raised", access_jwt |-> 0, refresh_jwt |-> 0, session_active |-> FALSE]

\* if session.create_session(): ... (feed_based.py: if not ...: exit(1)) --
\* whether the script goes on after create_session returned ret.
GoesOnAlways(ret) == ret # "raised"

GoesOn(ret) == ret = "true"

\* session = BlueskySession(...); the call of create_session and the test
\* of its result.
CreateSession ==
    /\ save_pc = "create"
    /\ \E ans \in CreateAnswers :
        LET r == CreateSessionResult(script, ans)
        IN  /\ access_jwt' = r.access_jwt
            /\ refresh_jwt' = r.refresh_jwt
            /\ session_active' = r.session_active
            /\ srv_tok' = IF ans \in {"ok", "ok_no_access", "ok_no_refresh"} THEN 1 ELSE srv_tok
            /\ save_pc' = IF GoesOn(r.ret) THEN "fetch"
                          ELSE IF r.ret = "raised" THEN "crashed" ELSE "exit"
    /\ UNCHANGED <<script, rq>>
    /\ UNCHANGED <<thread, fs_dirs, todo, saves>>
    /\ UNCHANGED <<pageVars, userVars, enrichVars, filterVars, multiVars, equivVars>>

\* The collections a run ends with: one per run, or one per handle in
\* multiple_user.py; each is empty (0) or not (1).
Collections(s) ==
    IF s = "multiple_user" THEN SeqsUpTo({0, 1}, MaxHandles) \ {<<>>} ELSE {<<0>>, <<1>>}

\* From the first prompt to the final collection: the script sends its API
\* requests and arrives at the save step, or leaves at a prompt (exit()) or
\* with an exception.
FetchAndEnrich ==
    /\ save_pc = "fetch"
    /\ \/ \E c \in Collections(script) :
            /\ todo' = c
            /\ page_requests' = page_requests + 1
            /\ save_pc' = "check"
       \/ /\ save_pc' = "exit"
          /\ UNCHANGED <<todo, page_requests>>
    /\ UNCHANGED <<max_posts, all_posts, cursor, pg_pc, end_reason, page_log>>
    /\ UNCHANGED <<thread, fs_dirs, saves>>
    /\ UNCHANGED <<sessVars, userVars, enrichVars, filterVars, multiVars, equivVars>>

\* Before the first statement: no session, any of the directories there.
InitRun ==
    /\ script \in AllScripts
    /\ session_active = FALSE
    /\ access_jwt = 0
    /\ refresh_jwt = 0
    /\ srv_tok = 0
    /\ rq = [t \in Threads |-> IdleFrame]
    /\ IdlePage
    /\ all_posts = <<>>
    /\ IdleUser
    /\ IdleEnrich
    /\ thread = NoThread
    /\ fs_dirs \in SUBSET Dirs
    /\ todo = <<>>
    /\ save_pc = IF script \in AuthScripts THEN "create" ELSE "fetch"
    /\ saves = <<>>
    /\ IdleFilter
    /\ IdleMulti
    /\ IdleEquiv

NextRun ==
    \/ CreateSession
    \/ FetchAndEnrich
    \/ SaveCheck
    \/ MakeDirs
    \/ OpenFile

SpecRun == InitRun /\ [][NextRun]_vars

\* ------------------------------------------------------------------ filters of search_based.py
\* The language filter and the date filter of search_based.py's __main__.

\* Longest fetched list of search_based.py that is filtered.
MaxSearchFetched == 2

\* createdAt instants of search results, and the calendar day of each:
\* instants 1 and 2 are on day 1, instant 3 is on day 2.
SearchTimes == {1, 2, 3}
\* datetime.fromisoformat(created_at_str.replace("Z", "+00:00")).date()
DateOf(t) == (t + 1) \div 2
\* date.min and date.max
DateMin == 0
DateMax == 3
\* The days a date prompt is answered with: 0 is blank, BadDate a string
\* that date.fromisoformat rejects.
BadDate == -1
DateInputs == {0, 1, 2, BadDate}

\* record.langs of a search result; <<>> is also a record without the key.
LangLists == {<<>>, <<"en">>, <<"es", "en">>}
LangChoices == {"", "en", "es"}

\* A search result: a post with its record.langs.
SearchPost(id, t, langs) ==
    [id |-> id, uri |-> id, t |-> t, has_comments |-> TRUE, comments |-> <<>>, langs |-> langs]

SearchPostKinds == [t : SearchTimes \cup {BadTime, NoCreatedAt}, langs : LangLists]

SearchFetched(kinds) ==
    [i \in 1 .. Len(kinds) |-> SearchPost(i, kinds[i].t, kinds[i].langs)]

\* if langs and lang_choice in langs
LangMatches(langs, choice) == langs # <<>> /\ \E i \in 1 .. Len(langs) : langs[i] = choice

\* The language block: the fetched list itself, or the matching posts.
RECURSIVE LanguageLoop(_, _, _, _)
LanguageLoop(posts, i, acc, choice) ==
    IF i > Len(posts) THEN acc
    ELSE IF LangMatches(posts[i].langs, choice)
        THEN LanguageLoop(posts, i + 1, Append(acc, posts[i]), choice)
        ELSE LanguageLoop(posts, i + 1, acc, choice)

LanguageFilter ==
    /\ main_pc = "filter"
    /\ script = "search_based"
    /\ final_posts' = IF lang_choice = "" THEN all_posts
                      ELSE LanguageLoop(all_posts, 1, <<>>, lang_choice)
    /\ main_pc' = "datefilter"
    /\ UNCHANGED <<work_queue, num_threads, wk, fut, results>>
    /\ UNCHANGED <<sessVars, pageVars, userVars, saveVars, filterVars, multiVars, equivVars>>

\* lower_limit_date <= post_date <= upper_limit_date
DateInRange(d, lo, hi) == lo <= d /\ d <= hi

\* The loop of the date block; raised says that fromisoformat raised
\* ValueError, which leaves the loop and the whole try block.
RECURSIVE DateLoop(_, _, _, _, _)
DateLoop(posts, i, acc, lo, hi) ==
    IF i > Len(posts) THEN [posts |-> acc, raised |-> FALSE]
    ELSE LET t == posts[i].t IN
         IF t = NoCreatedAt THEN DateLoop(posts, i + 1, acc, lo, hi)
         ELSE IF t = BadTime THEN [posts |-> acc, raised |-> TRUE]
         ELSE IF DateInRange(DateOf(t), lo, hi)
             THEN DateLoop(posts, i + 1, Append(acc, posts[i]), lo, hi)
             ELSE DateLoop(posts, i + 1, acc, lo, hi)

\* The date block: the try covers the parsing of both prompts and the
\* loop, and final_posts is assigned only at its end; the except branch
\* prints and goes on. The result is final_posts after the block.
DateBlockDropsOnError(posts, lo_str, hi_str) ==
    IF lo_str = BadDate \/ hi_str = BadDate THEN <<>>
    ELSE LET lo == IF lo_str # 0 THEN lo_str ELSE DateMin
             hi == IF hi_str # 0 THEN hi_str ELSE DateMax
             r == DateLoop(posts, 1, <<>>, lo, hi)
         IN  IF r.raised THEN posts ELSE r.posts

DateBlock(posts, lo_str, hi_str) ==
    IF lo_str = BadDate \/ hi_str = BadDate THEN posts
    ELSE LET lo == IF lo_str # 0 THEN lo_str ELSE DateMin
             hi == IF hi_str # 0 THEN hi_str ELSE DateMax
             r == DateLoop(posts, 1, <<>>, lo, hi)
         IN  IF r.raised THEN posts ELSE r.posts

\* if ts_filter_choice == 'y': the date block; then the script goes on to
\* the URLs and the pool.
DateFilter ==
    /\ main_pc = "datefilter"
    /\ script = "search_based"
    /\ final_posts' = IF filter_choice = "y"
                        THEN DateBlock(final_posts, lower_limit_str, upper_limit_str)
                        ELSE final_posts
    /\ main_pc' = "enrich"
    /\ UNCHANGED <<work_queue, num_threads, wk, fut, results>>
    /\ UNCHANGED <<sessVars, pageVars, userVars, saveVars, filterVars, multiVars, equivVars>>

InitSearchFilter ==
    /\ script = "search_based"
    /\ InitSession
    /\ IdlePage
    /\ all_posts \in { SearchFetched(ks) : ks \in SeqsUpTo(SearchPostKinds, MaxSearchFetched) }
    /\ IdleUser
    /\ final_posts = <<>>
    /\ work_queue = <<>>
    /\ num_threads = 0
    /\ wk = [w \in Workers |-> IdleWorker]
    /\ fut = <<>>
    /\ results = <<>>
    /\ main_pc = "filter"
    /\ IdleSave
    /\ filter_choice \in {"y", "n"}
    /\ lang_choice \in LangChoices
    /\ lower_limit_str \in DateInputs
    /\ upper_limit_str \in DateInputs
    /\ IdleMulti
    /\ IdleEquiv

NextSearchFilter ==
    \/ LanguageFilter
    \/ DateFilter

SpecSearchFilter == InitSearchFilter /\ [][NextSearchFilter]_vars

\* ------------------------------------------------------------------ the pools of multiple_user.py
\*     tasks = [(handle, start_time, end_time, max_posts) for handle in target_handles]
\*     with ThreadPoolExecutor(max_workers=MAX_WORKERS) as executor:
\*         results = executor.map(get_all_user_posts, tasks)
\*         for handle, posts in results:
\*             if not posts: continue
\*             with ThreadPoolExecutor(max_workers=MAX_WORKERS) as comment_executor:
\*                 posts = list(comment_executor.map(fetch_comments_and_replies, posts))
\*             ... os.makedirs ... open(filename, 'w') ...
\* get_all_user_posts itself is the author-feed paginator above; here each
\* author feed ends with its first answer, so that a call is its page
\* request and its return. The comment pool is the enrichment above,
\* started once per user with posts; in these runs the server answers its
\* requests with a thread or not at all, never with ExpiredToken.
Handles == 1 .. MaxHandles
UserWorkers == 1 .. MaxHandles

\* Largest number of posts get_all_user_posts returns for one handle.
MaxUserPosts == 2

\* What get_all_user_posts returns for a handle: no post, or some.
UserFetchResults ==
    { [i \in 1 .. n |-> InitComments(Post(i, i, 1))] : n \in 0 .. MaxUserPosts }

\* A future of the outer pool.
NewUserFuture == [state |-> "pending", posts |-> <<>>]

\* executor.map submits one task per handle, in list order, before the for
\* loop takes its first result.
MapSubmit ==
    /\ multi_pc = "submit"
    /\ LET i == Len(user_futs) + 1
       IN  /\ user_futs' = Append(user_futs, NewUserFuture)
           /\ user_queue' = Append(user_queue, i)
           /\ user_threads' = IF ShouldSpawn(user_threads) THEN user_threads + 1 ELSE user_threads
           /\ multi_pc' = IF i = Len(tasks) THEN "results" ELSE "submit"
    /\ UNCHANGED <<tasks, user_wk, finished, yielded, handled>>
    /\ UNCHANGED <<sessVars, pageVars, userVars, enrichVars, saveVars, filterVars, equivVars>>

\* A thread of the outer pool takes the next task and calls
\* get_all_user_posts, up to its first page request.
UserFetchStart(w) ==
    /\ w <= user_threads
    /\ user_wk[w].pc = "idle"
    /\ user_queue # <<>>
    /\ user_wk' = [user_wk EXCEPT ![w] = [pc |-> "request", task |-> Head(user_queue)]]
    /\ user_queue' = Tail(user_queue)
    /\ user_futs' = [user_futs EXCEPT ![Head(user_queue)].state = "running"]
    /\ UNCHANGED <<tasks, user_threads, finished, yielded, handled, multi_pc>>
    /\ UNCHANGED <<sessVars, pageVars, userVars, enrichVars, saveVars, filterVars, equivVars>>

\* The answer to the page request arrives and get_all_user_posts returns
\* (handle, posts): a failed request, an empty page, a page without cursor,
\* the limit, or a post older than start_time.
UserFetchFinish(w) ==
    /\ w <= user_threads
    /\ user_wk[w].pc = "request"
    /\ \E posts \in UserFetchResults :
        user_futs' = [user_futs EXCEPT ![user_wk[w].task] = [state |-> "done", posts |-> posts]]
    /\ finished' = Append(finished, user_wk[w].task)
    /\ user_wk' = [user_wk EXCEPT ![w] = IdleWorker]
    /\ UNCHANGED <<tasks, user_queue, user_threads, yielded, handled, multi_pc>>
    /\ UNCHANGED <<sessVars, pageVars, userVars, enrichVars, saveVars, filterVars, equivVars>>

\* if not posts: continue -- whether the loop body goes on for a result.
HasPostsAlways(posts) == TRUE

HasPosts(posts) == posts # <<>>

\* Which future the iterator of executor.map yields after n results: the
\* next one in submission order, once it is done.
NextUserResult(n, futs) ==
    { i \in {n + 1} : i <= Len(futs) /\ futs[i].state = "done" }

\* The head of `for handle, posts in results`, `if not posts: continue`, and
\* the loop body up to the map of the comment pool; after the last result
\* the outer with block ends.
TakeUserResult ==
    /\ multi_pc = "results"
    /\ IF yielded = Len(tasks)
         THEN /\ multi_pc' = "end"
              /\ UNCHANGED <<yielded, handled, final_posts, main_pc>>
         ELSE \E i \in NextUserResult(yielded, user_futs) :
                /\ yielded' = yielded + 1
                /\ IF ~HasPosts(user_futs[i].posts)
                     THEN UNCHANGED <<handled, multi_pc, final_posts, main_pc>>
                     ELSE /\ handled' = Append(handled, i)
                          /\ multi_pc' = "comments"
                          /\ final_posts' = user_futs[i].posts
                          /\ main_pc' = "submit"
    /\ UNCHANGED <<tasks, user_futs, user_queue, user_threads, user_wk, finished>>
    /\ UNCHANGED <<work_queue, num_threads, wk, fut, results>>
    /\ UNCHANGED <<sessVars, pageVars, userVars, saveVars, filterVars, equivVars>>

\* The rest of the loop body for one user, after the comment pool's with
\* block has ended: os.makedirs("multiple_user"), open(filename, 'w') and
\* json.dump inside try/except; the next turn builds a new comment pool.
ProcessUser ==
    /\ multi_pc = "comments"
    /\ main_pc = "save"
    /\ fs_dirs' = fs_dirs \cup {OutputDir(script)}
    /\ saves' = Append(saves, IF FileDir(script) \in fs_dirs' THEN "saved" ELSE "missing_dir")
    /\ multi_pc' = "results"
    /\ final_posts' = <<>>
    /\ work_queue' = <<>>
    /\ num_threads' = 0
    /\ fut' = <<>>
    /\ results' = <<>>
    /\ main_pc' = "idle"
    /\ UNCHANGED <<wk, thread, todo, save_pc>>
    /\ UNCHANGED <<tasks, user_futs, user_queue, user_threads, user_wk, finished, yielded, handled>>
    /\ UNCHANGED <<sessVars, pageVars, userVars, filterVars, equivVars>>

InitMulti ==
    /\ script = "multiple_user"
    /\ InitSession
    /\ IdlePage
    /\ all_posts = <<>>
    /\ IdleUser
    /\ IdleEnrich
    /\ thread = NoThread
    /\ fs_dirs \in {{}, {"user_model"}}
    /\ todo = <<>>
    /\ save_pc = "idle"
    /\ saves = <<>>
    /\ filter_choice = "n"
    /\ lang_choice = ""
    /\ lower_limit_str = 0
    /\ upper_limit_str = 0
    /\ tasks \in { [i \in 1 .. n |-> i] : n \in Handles }
    /\ user_futs = <<>>
    /\ user_queue = <<>>
    /\ user_threads = 0
    /\ user_wk = [w \in UserWorkers |-> IdleWorker]
    /\ finished = <<>>
    /\ yielded = 0
    /\ handled = <<>>
    /\ multi_pc = "submit"
    /\ IdleEquiv

NextMulti ==
    \/ MapSubmit
    \/ \E w \in UserWorkers : UserFetchStart(w)
    \/ \E w \in UserWorkers : UserFetchFinish(w)
    \/ TakeUserResult
    \/ Submit
    \/ \E w \in Workers : WorkerTake(w)
    \/ \E w \in Workers : WorkerRecv(w, UnexpiredThreadAnswers)
    \/ Collect
    \/ ProcessUser

SpecMulti == InitMulti /\ [][NextMulti]_vars

\* Every request is answered in the end and every thread keeps running.
SpecMultiFair == SpecMulti /\ WF_vars(NextMulti)

\* ------------------------------------------------------------------ a pool against a fixed server
\* The comment pool when the server's answer to a getPostThread request is
\* a function of the request (its uri) and no token expires.

\* The uris of the posts: 0 is a post without uri.
DetermUris == 0 .. 3

\* The server's answer for uri u: a thread without replies, a thread with
\* more replies than are kept, or a network error.
ServerAnswer(u) ==
    CASE u = 1 -> [kind |-> "ok", status |-> 200, error |-> "", body |-> ThreadBody(BareThread)]
      [] u = 2 -> [kind |-> "ok", status |-> 200, error |-> "",
                   body |-> ThreadBody(ThreadOfLen(MAX_COMMENTS_PER_POST + 1))]
      [] OTHER -> [kind |-> "net", status |-> 0, error |-> "", body |-> NoBody]

\* The posts handed to the pool, any uri on any of them.
DetermInputs ==
    { [i \in 1 .. Len(us) |-> InitComments(Post(i, us[i], 0))] :
        us \in SeqsUpTo(DetermUris, MaxEnrichPosts) \ {<<>>} }

InitDeterm ==
    /\ script \in EnrichScripts
    /\ InitSession
    /\ IdlePage
    /\ all_posts = <<>>
    /\ IdleUser
    /\ final_posts \in DetermInputs
    /\ work_queue = <<>>
    /\ num_threads = 0
    /\ wk = [w \in Workers |-> IdleWorker]
    /\ fut = <<>>
    /\ results = <<>>
    /\ main_pc = "submit"
    /\ IdleSave
    /\ IdleFilter
    /\ IdleMulti
    /\ IdleEquiv

NextDeterm ==
    \/ Submit
    \/ \E w \in Workers : WorkerTake(w)
    \/ \E w \in Workers : WorkerRecv(w, {ServerAnswer(rq[w].params.uri)})
    \/ Collect

SpecDeterm == InitDeterm /\ [][NextDeterm]_vars

\* ------------------------------------------------------------------ every pool
\* The comment pool of a single-pool script, or the two pools of
\* multiple_user.py with the save of each user's file.
InitPools == InitEnrich \/ InitMulti

\* The answers to a thread request in a run of script s.
PoolThreadAnswers(s) == IF s = "multiple_user" THEN UnexpiredThreadAnswers ELSE ThreadAnswers

NextPools ==
    \/ Submit
    \/ \E w \in Workers : WorkerTake(w)
    \/ \E w \in Workers : WorkerRecv(w, PoolThreadAnswers(script))
    \/ \E w \in Workers : WorkerRefreshRecv(w)
    \/ \E w \in Workers : WorkerRetry(w)
    \/ Collect
    \/ MapSubmit
    \/ \E w \in UserWorkers : UserFetchStart(w)
    \/ \E w \in UserWorkers : UserFetchFinish(w)
    \/ TakeUserResult
    \/ ProcessUser

SpecPools == InitPools /\ [][NextPools]_vars

\* ------------------------------------------------------------------ the author-feed paginators side by side
\* The three get_all_user_posts run on the same arguments against the same
\* answers: the k-th call of the request function ends the same way in
\* each of them (the same response, or a failure).

\* How a call of the request function can end: it raised, or it returned a
\* body.
EquivFrames ==
    {[IdleFrame EXCEPT !.pc = "raised", !.exc = "http"]}
    \cup { [IdleFrame EXCEPT !.pc = "returned", !.result = b] : b \in UserPageBodies \cup {NoBody} }

\* all_posts = [], cursor = None, before the first request.
ImplStart == [posts |-> <<>>, cursor |-> 0, stop |-> "", requests |-> <<>>]

\* One more turn of the loop of implementation s, its call ending as frame.
ImplTurn(s, loc, frame, st, et, maxp) ==
    IF loc.stop # "" THEN loc
    ELSE LET r == UserLoopBody(s, frame, loc.posts, loc.cursor, Len(loc.requests) + 1, st, et, maxp)
         IN  [posts |-> r.posts, cursor |-> r.cursor, stop |-> r.stop,
              requests |-> Append(loc.requests, UserParams(loc.cursor))]

\* Every implementation still in its loop makes its next request, and all
\* of them get the same answer.
EquivTurn ==
    /\ \E s \in UserScripts : impl[s].stop = "" /\ Len(impl[s].requests) < MaxUserPages
    /\ \E frame \in EquivFrames :
        impl' = [s \in UserScripts |->
                    ImplTurn(s, impl[s], frame, start_time, end_time, max_posts)]
    /\ UNCHANGED <<sessVars, pageVars, userVars, enrichVars, saveVars, filterVars, multiVars>>

InitEquiv ==
    /\ script = "user_based"
    /\ InitSession
    /\ all_posts = <<>>
    /\ cursor = 0
    /\ pg_pc = "done"
    /\ page_requests = 0
    /\ end_reason = ""
    /\ page_log = <<>>
    /\ max_posts_input \in MaxPostsInputs
    /\ max_posts = ParseMaxPosts(max_posts_input)
    /\ start_time \in {0} \cup Times
    /\ end_time \in {0} \cup Times
    /\ IdleEnrich
    /\ IdleSave
    /\ IdleFilter
    /\ IdleMulti
    /\ impl = [s \in UserScripts |-> ImplStart]

NextEquiv == EquivTurn

SpecEquiv == InitEquiv /\ [][NextEquiv]_vars

\* ------------------------------------------------------------------ claims
IsExpired400(ans) == ans.kind = "http" /\ ans.status = 400 /\ ans.error = "ExpiredToken"

\* C1: one top-level _make_request call sends at most two data requests and
\* at most one refreshSession request; when the retry also fails with
\* ExpiredToken the call raises, with no second refresh and no third attempt.
C1_RetryOnce ==
    \A t \in Threads :
        /\ Len(rq[t].reqs) <= 2
        /\ rq[t].nrefresh <= 1
        /\ rq[t].refresh_calls <= 1
        /\ (Finished(t) /\ Len(rq[t].reqs) = 2 /\ IsExpired400(rq[t].last))
              => (rq[t].pc = "raised" /\ rq[t].nrefresh = 1)

C1_Witness ==
    /\ rq[Main].pc = "raised"
    /\ rq[Main].is_retry
    /\ Len(rq[Main].reqs) = 2
    /\ IsExpired400(rq[Main].last)
    /\ rq[Main].nrefresh = 1

\* C2: after a first attempt answered 400/ExpiredToken and a successful
\* refresh, the same request is sent once more, with the access token the
\* refresh returned in its Authorization header, and the call ends with the
\* retry's outcome.
C2_RetryWithNewToken ==
    \A t \in Threads :
        /\ (rq[t].minted # 0 /\ rq[t].pc \in {"sent", "returned", "raised"})
              => Len(rq[t].reqs) = 2
        /\ Len(rq[t].reqs) = 2 =>
              /\ IsExpired400(rq[t].first)
              /\ rq[t].reqs[2].params = rq[t].reqs[1].params
              /\ rq[t].reqs[2].auth = rq[t].minted
              /\ rq[t].reqs[2].auth # rq[t].reqs[1].auth
              /\ rq[t].pc = "returned" => rq[t].last.kind = "ok"
              /\ rq[t].pc = "raised" => rq[t].last.kind # "ok"

C2_Witness ==
    /\ rq[Main].pc = "returned"
    /\ Len(rq[Main].reqs) = 2
    /\ rq[Main].reqs[2].auth = rq[Main].minted
    /\ rq[Main].minted = access_jwt
    /\ rq[Main].result.kind = "page"

\* C3: in feed_based.py a first attempt answered with an HTTP error whose
\* body carries error ExpiredToken leads to a call of _refresh_session, and
\* to a retry when that refresh succeeds.
C3_FeedRefreshesOnExpiry ==
    \A t \in Threads :
        (script = "feed_based" /\ rq[t].first.kind = "http" /\ rq[t].first.error = "ExpiredToken")
            => /\ rq[t].refresh_calls >= 1
               /\ (rq[t].minted # 0 /\ rq[t].pc \in {"returned", "raised"}) => Len(rq[t].reqs) = 2

\* C4: a count-bounded paginator returns at most max_posts posts, whatever
\* the sizes of the pages the server sends.
C4_AtMostMaxPosts == pg_pc = "done" => Len(all_posts) <= max_posts

\* C5: the loop of a count-bounded paginator ends, after at most max_posts
\* page requests: it ends on an empty page, a response without cursor, a
\* request error or a full list, and every iteration that does not end it
\* adds at least one post.
C5_LoopInv ==
    /\ page_requests <= max_posts
    /\ pg_pc = "loop" => Len(all_posts) >= page_requests
    /\ (pg_pc = "loop" /\ page_requests > 0) => cursor # 0
    /\ pg_pc = "wait" => (Len(all_posts) < max_posts /\ Len(all_posts) >= page_requests - 1)
    /\ pg_pc = "done" => end_reason \in {"count", "empty", "nodata", "error", "nocursor"}
    /\ end_reason = "count" => Len(all_posts) >= max_posts
    /\ end_reason = "nocursor" => cursor = 0

C5_Terminates == []C5_LoopInv /\ <>(pg_pc = "done")

C5_Witness ==
    /\ pg_pc = "done"
    /\ max_posts = MaxMaxPosts
    /\ page_requests = max_posts
    /\ end_reason = "count"

\* C6: with a numeric entry at the max-posts prompt (0 included),
\* get_all_user_posts returns at most that many posts.
C6_AtMostNumericLimit ==
    (script \in UserScripts /\ IsDigit(max_posts_input) /\ pg_pc = "done")
        => Len(all_posts) <= IntOf(max_posts_input)

\* C7: while a single-pool script enriches its posts, at most MAX_WORKERS
\* thread fetches are in progress at any moment; get_post_thread is called
\* once for each post with a uri and never for a post without one; and one
\* call sends the getPostThread request of its post once, or twice when
\* the first attempt led to a token refresh.
InProgress == {i \in 1 .. Len(fut) : fut[i].state = "running"}

C7_PoolBound ==
    /\ Cardinality(InProgress) <= MAX_WORKERS
    /\ Cardinality({w \in Workers : rq[w].pc = "sent"}) <= MAX_WORKERS
    /\ \A i \in 1 .. Len(fut) :
          /\ fut[i].calls <= 1
          /\ fut[i].state \in {"running", "done"}
                => fut[i].calls = (IF final_posts[i].uri # 0 THEN 1 ELSE 0)
          /\ fut[i].state = "running"
                => Cardinality({w \in Workers : wk[w].pc = "fetch" /\ wk[w].task = i}) = 1
    /\ \A w \in Workers :
          /\ Len(rq[w].reqs) <= 2
          /\ Len(rq[w].reqs) = 2 => (rq[w].is_retry /\ rq[w].nrefresh = 1)
          /\ \A k \in 1 .. Len(rq[w].reqs) :
                rq[w].reqs[k].params = ThreadParams(final_posts[wk[w].task].uri)

C7_Witness ==
    /\ script \in SinglePoolScripts
    /\ Cardinality(InProgress) = MAX_WORKERS
    /\ work_queue # <<>>
    /\ \E w \in Workers : rq[w].pc = "sent" /\ Len(rq[w].reqs) = 2
    /\ \A i \in InProgress : fut[i].calls = 1

\* C8: enrichment neither loses nor reorders posts: the list made from
\* executor.map holds, index by index, the posts it was given, under every
\* interleaving of the workers; a post without uri, and a post whose
\* get_post_thread returned None, keeps comments == []; and the script gets
\* to its save step.
C8_KeepInv ==
    /\ Len(results) <= Len(final_posts)
    /\ \A k \in 1 .. Len(results) : results[k] = k
    /\ \A i \in 1 .. Len(final_posts) : final_posts[i].id = i
    /\ main_pc = "save" => Len(results) = Len(final_posts)
    /\ \A i \in 1 .. Len(fut) :
          (fut[i].state = "done" /\ (final_posts[i].uri = 0 \/ fut[i].failed))
              => (final_posts[i].has_comments /\ final_posts[i].comments = <<>>)

C8_KeepsPosts == []C8_KeepInv /\ <>(main_pc = "save")

C8_Witness ==
    /\ main_pc = "save"
    /\ Len(results) = MaxEnrichPosts
    /\ \E i \in 1 .. Len(fut) : final_posts[i].uri = 0
    /\ \E i \in 1 .. Len(fut) : fut[i].failed
    /\ \E i \in 1 .. Len(fut) : final_posts[i].comments # <<>>

\* C9: after fetch_comments_and_replies a post holds at most
\* MAX_COMMENTS_PER_POST comments: the first min(n, MAX_COMMENTS_PER_POST) of
\* the thread's n top-level replies, in the server's order, each as
\* {post, replies} where replies lists the posts of that comment's direct
\* replies and nothing nested under them.
TopLevelReplies == IF thread.kind = "thread" /\ thread.has_replies THEN thread.replies ELSE <<>>

C9_CommentsShape ==
    main_pc = "save" =>
        LET comments == final_posts[1].comments
        IN  /\ Len(comments) <= MAX_COMMENTS_PER_POST
            /\ Len(comments) = Min(Len(TopLevelReplies), MAX_COMMENTS_PER_POST)
            /\ \A k \in 1 .. Len(comments) :
                  LET ct == TopLevelReplies[k]
                      n == IF ct.has_replies THEN Len(ct.replies) ELSE 0
                  IN  /\ comments[k].post = ct.post
                      /\ Len(comments[k].replies) = n
                      /\ \A j \in 1 .. n : comments[k].replies[j] = ct.replies[j].post

C9_Witness ==
    /\ main_pc = "save"
    /\ Len(TopLevelReplies) > MAX_COMMENTS_PER_POST
    /\ Len(final_posts[1].comments) = MAX_COMMENTS_PER_POST
    /\ \E k \in 1 .. MAX_COMMENTS_PER_POST :
          /\ Len(final_posts[1].comments[k].replies) = MaxReplyLen
          /\ \E j \in 1 .. MaxReplyLen : TopLevelReplies[k].replies[j].deeper

\* C10: every save has made the directory of its target file before it
\* opens the file, so no open fails for a missing output directory; the
\* per-user save of multiple_user.py included.
C10_SaveDirExists ==
    /\ save_pc = "open" => FileDir(script) \in fs_dirs
    /\ \A k \in 1 .. Len(saves) : saves[k] # "missing_dir"

\* C11: in feed_based.py and trend_based.py (and trend_based_unauth.py, the
\* same block), once the filter block has run through, final_posts is the
\* fetched list when the filter is off, and otherwise the subsequence, in
\* order, of the fetched posts that have a createdAt t with (start blank or
\* t >= start) and (end blank or t <= end).
C11_Selected(p) == p.t # NoCreatedAt /\ (start_time = 0 \/ p.t >= start_time)
                                     /\ (end_time = 0 \/ p.t <= end_time)
C11_FilterExact ==
    (script \in TimestampScripts /\ main_pc = "enrich") =>
        final_posts = IF filter_choice = "y" THEN SelectSeq(all_posts, C11_Selected)
                                            ELSE all_posts
\* A run that kept a post on a bound and dropped one outside.
C11_Witness ==
    /\ script \in {"feed_based", "trend_based"} /\ main_pc = "enrich" /\ filter_choice = "y"
    /\ start_time = 2 /\ Len(all_posts) = 3 /\ Len(final_posts) = 1
    /\ final_posts[1].t = 2 /\ all_posts[1].t = 1

\* The page of the last response (the local `response` of the paginator),
\* and whether its item i is in the returned list.
LastPage == rq[Main].result.items
Returned(i) == \E j \in 1 .. Len(all_posts) : all_posts[j].id = 10 * page_requests + i

\* C12: when get_all_user_posts has returned without a max_posts limit and
\* without a request error, every post the server listed whose createdAt
\* lies in [start_time, end_time] is in the returned list, whatever the
\* order of the listing; here for the posts of the last page served.
C12_NoInRangePostMissing ==
    (script \in UserScripts /\ pg_pc = "done" /\ max_posts = NoLimit /\ end_reason # "error") =>
        \A i \in 1 .. Len(LastPage) :
            (LastPage[i] \in Times /\ StartOf(start_time) <= LastPage[i]
                                   /\ LastPage[i] <= EndOf(end_time)) => Returned(i)

\* C13: in feed_based_unauth.py, when the user wants a timestamp range, no
\* post whose createdAt lies outside the range is in the collection that
\* goes on to enrichment and saving.
C13_UnauthFeedFilters ==
    (script = "feed_based_unauth" /\ main_pc = "enrich" /\ filter_choice = "y") =>
        \A j \in 1 .. Len(final_posts) :
            final_posts[j].t \in Times => InRange(final_posts[j].t, start_time, end_time)

\* C14: in search_based.py the final collection holds, of the fetched posts
\* whose createdAt is a date, exactly those p with (lang_choice blank or
\* lang_choice in p.record.langs) and (date filter off or lower <=
\* date(createdAt) <= upper, a blank bound being no bound), in fetched order.
C14_HasDate(p) == p.t \in SearchTimes
C14_Selected(p) ==
    /\ C14_HasDate(p)
    /\ lang_choice = "" \/ LangMatches(p.langs, lang_choice)
    /\ filter_choice # "y" \/
          /\ lower_limit_str = 0 \/ lower_limit_str <= DateOf(p.t)
          /\ upper_limit_str = 0 \/ DateOf(p.t) <= upper_limit_str
C14_Intersection ==
    (script = "search_based" /\ main_pc = "enrich"
        /\ lower_limit_str # BadDate /\ upper_limit_str # BadDate) =>
        SelectSeq(final_posts, C14_HasDate) = SelectSeq(all_posts, C14_Selected)

\* C15: in feed_based.py and trend_based.py with the timestamp filter on, a
\* fetched post whose createdAt cannot be parsed never ends the run: the
\* filter block is left for the URL and enrichment steps, not by an exception.
C15_BadPostNotFatal ==
    (script \in {"feed_based", "trend_based"} /\ filter_choice = "y") => main_pc # "aborted"

\* The place of task i in the order in which the fetches finished.
FinishRank(i) == CHOOSE k \in 1 .. Len(finished) : finished[k] = i

\* C16: in multiple_user.py the loop body handles users in the order in
\* which their post fetches finished: a user handled earlier finished
\* fetching earlier.
C16_HandledAsCompleted ==
    \A a, b \in 1 .. Len(handled) :
        a < b => FinishRank(handled[a]) < FinishRank(handled[b])

\* C17: in every paginator the first page request carries no cursor, each
\* later one carries the cursor of the response just before it (a retry
\* after a refresh carries the same params), and a page request follows
\* only a response with a non-empty page and a non-empty cursor.
C17_Chained(prev, sent) ==
    IF prev = <<>> THEN sent = 0
    ELSE LET last == prev[Len(prev)]
         IN  sent = last.next /\ last.outcome = "page" /\ last.next # 0
C17_CursorChaining ==
    /\ \A k \in 1 .. Len(page_log) : C17_Chained(SubSeq(page_log, 1, k - 1), page_log[k].sent)
    /\ pg_pc = "wait" =>
          /\ C17_Chained(page_log, rq[Main].params.cursor)
          /\ \A r \in 1 .. Len(rq[Main].reqs) : rq[Main].reqs[r].params = rq[Main].params
    /\ Len(page_log) + (IF pg_pc = "wait" THEN 1 ELSE 0) = page_requests
\* A third request is in flight, sent again after a refresh, carrying the
\* cursor of the second response, which differs from that of the first.
C17_Witness ==
    /\ Len(page_log) = 2 /\ pg_pc = "wait" /\ Len(rq[Main].reqs) = 2
    /\ page_log[1].next = 2 /\ page_log[2].next = 1
    /\ rq[Main].reqs[2].params.cursor = 1

\* The call of the request function that the paginator is waiting for has
\* ended in a failure: it raised, or the server answered with an error
\* (which make_public_request turns into None in two scripts).
C18_Failed == Finished(Main) /\ (rq[Main].pc = "raised" \/ rq[Main].last.kind \in {"http", "net"})
\* C18: a page request that fails ends the pagination (no further request
\* is made) and the paginator returns the posts it had accumulated from the
\* earlier pages, all of them and nothing else.
C18_FailureKeepsPages ==
    /\ [](pg_pc = "done" => rq[Main].pc = "idle")
    /\ [][(pg_pc = "wait" /\ C18_Failed) =>
            (pg_pc' = "done" /\ all_posts' = all_posts /\ page_requests' = page_requests)]_vars
\* A paginator that returned posts of a first page after its second request failed.
C18_Witness ==
    /\ script \in {"feed_based", "feed_based_unauth", "user_based_unauth"}
    /\ pg_pc = "done" /\ end_reason \in {"error", "nodata"}
    /\ page_requests = 2 /\ Len(page_log) = 2 /\ page_log[1].outcome = "page"
    /\ all_posts # <<>>

\* The call of thread t went into _refresh_session and no new token came
\* out of it: the refresh failed, and the call has ended.
C19_RefreshFailed(t) == rq[t].refresh_calls > 0 /\ rq[t].minted = 0 /\ rq[t].pc = "raised"
\* C19: a data request is outstanding only with an active session, and
\* once _refresh_session has failed the session is inactive (so that every
\* later _make_request raises before it sends anything).
C19_InactiveAfterFailedRefresh ==
    \A t \in Threads :
        /\ (script \in AuthScripts /\ rq[t].pc = "sent") => session_active
        /\ C19_RefreshFailed(t) => ~session_active

C21_LangKept(p) ==
    lang_choice = "" \/ \E i \in 1 .. Len(p.langs) : p.langs[i] = lang_choice

\* C21: in search_based.py a date prompt answered with a string that
\* date.fromisoformat rejects leaves final_posts as the language filter
\* left it, and the script goes on to the enrichment step.
C21_BadDateKeepsPosts ==
    /\ [](( /\ main_pc = "enrich" /\ filter_choice = "y"
            /\ (lower_limit_str = BadDate \/ upper_limit_str = BadDate))
              => final_posts = SelectSeq(all_posts, C21_LangKept))
    /\ [][( /\ main_pc = "datefilter" /\ filter_choice = "y"
            /\ (lower_limit_str = BadDate \/ upper_limit_str = BadDate))
              => (final_posts' = final_posts /\ main_pc' = "enrich")]_vars

\* A bad end date after a language filter that dropped one post and kept one.
C21_Witness ==
    /\ main_pc = "enrich"
    /\ filter_choice = "y"
    /\ lower_limit_str = 1
    /\ upper_limit_str = BadDate
    /\ lang_choice = "es"
    /\ Len(all_posts) = 2
    /\ Len(final_posts) = 1

\* Whether get_all_user_posts returned at least one post for task i.
C22_Fetched(i) == user_futs[i].posts # <<>>

\* C22: in multiple_user.py every handle entered is taken from the result
\* iterator, whatever the fetch of another handle returned and whether or
\* not another handle's file could be written; the handles with at least one
\* fetched post, and only they, go through the loop body, in the order
\* entered, each with one open of its file; and the loop gets to its end.
C22_Inv ==
    /\ yielded <= Len(tasks)
    /\ handled = SelectSeq([i \in 1 .. yielded |-> i], C22_Fetched)
    /\ Len(saves) = Len(handled) - (IF multi_pc = "comments" THEN 1 ELSE 0)
    /\ multi_pc = "end" => yielded = Len(tasks)

PageFetchesInProgress == { w \in UserWorkers : user_wk[w].pc = "request" }
ThreadFetchesInProgress == { w \in Workers : rq[w].pc \in {"sent", "refreshing"} }

\* C23: in multiple_user.py the page fetches of the outer pool and the
\* thread fetches of the per-user comment pool that are in progress at one
\* moment are at most MAX_WORKERS together.
C23_RequestsBounded ==
    Cardinality(PageFetchesInProgress) + Cardinality(ThreadFetchesInProgress) <= MAX_WORKERS

\* Worker w is inside _refresh_session, its refreshSession request sent,
\* after its data request with access token tok was answered ExpiredToken.
C24_RefreshingFor(w, tok) ==
    rq[w].pc = "refreshing" /\ rq[w].reqs[Len(rq[w].reqs)].auth = tok

\* C24: of the workers of one pool whose requests with the same access
\* token were answered ExpiredToken, at most one sends a refreshSession
\* request; here, no two of them are refreshing at the same time.
C24_OneRefreshPerExpiry ==
    \A w1, w2 \in Workers :
        \A tok \in 1 .. MaxTokens :
            (C24_RefreshingFor(w1, tok) /\ C24_RefreshingFor(w2, tok)) => w1 = w2

\* Worker w's refreshSession request is out with a refresh token that
\* another worker's successful refresh has replaced in the meantime.
C25_Replaced(w) == rq[w].pc = "refreshing" /\ rq[w].rtok # refresh_jwt

\* A refresh succeeds in this step: the server mints a new token pair.
C25_RefreshSucceeds == srv_tok' # srv_tok

\* C25: under every interleaving of the workers of a pool, the session is
\* active after a refresh that succeeded, and the failure of a refresh whose
\* refresh token had been replaced by another worker's successful refresh
\* does not turn an active session holding the new access token inactive.
C25_InactiveOnlyAfterFailedRefresh ==
    [][ /\ C25_RefreshSucceeds => session_active'
        /\ \A w \in Workers :
              (C25_Replaced(w) /\ rq'[w].pc # "refreshing" /\ access_jwt' = srv_tok')
                  => ~(session_active /\ ~session_active') ]_vars

\* The pool has nothing left to do: every post's task is done, no task is
\* queued, and no worker thread is inside fetch_comments_and_replies.
C26_PoolQuiet ==
    /\ work_queue = <<>>
    /\ Len(fut) = Len(final_posts)
    /\ \A i \in 1 .. Len(fut) : fut[i].state = "done"
    /\ \A w \in Workers : wk[w].pc = "idle" /\ rq[w].pc = "idle"

\* C26: when the main thread arrives at the save block, every
\* fetch_comments_and_replies task of the pool it has just left has
\* completed; the file is opened only then; and from then on no post of
\* the collection is changed.
C26_WriteAfterPool ==
    /\ [](main_pc = "save" => C26_PoolQuiet)
    /\ [][saves' # saves => (main_pc = "save" /\ C26_PoolQuiet)]_vars
    /\ [][main_pc = "save" => (final_posts' = final_posts \/ saves' # saves)]_vars

\* The pool of the second user of multiple_user.py has ended, after the
\* first user's file was written; comments were appended to a post.
C26_Witness ==
    /\ script = "multiple_user"
    /\ main_pc = "save"
    /\ Len(saves) = 1
    /\ Len(final_posts) = MaxUserPosts
    /\ \E i \in 1 .. Len(final_posts) : final_posts[i].comments # <<>>

\* What one call of fetch_comments_and_replies on post i alone makes of
\* it, with the server's answer for its uri.
C27_Alone(i) ==
    LET p == [final_posts[i] EXCEPT !.comments = <<>>]
        ans == ServerAnswer(p.uri)
        th == IF p.uri = 0 \/ ans.kind # "ok" \/ ans.body.kind = "none"
                THEN NoThread ELSE ans.body.thread
    IN  ApplyThread(script, p, th)

\* C27: with a server whose answer is a function of the request and
\* without token expiry, the list that is saved is the same under every
\* interleaving of the workers: post by post what a call of
\* fetch_comments_and_replies on that post alone gives; and while the pool
\* runs, each post is either untouched or already in that final form.
C27_SameUnderEveryInterleaving ==
    /\ \A i \in 1 .. Len(final_posts) :
          final_posts[i] \in {[final_posts[i] EXCEPT !.comments = <<>>], C27_Alone(i)}
    /\ main_pc = "save" =>
          /\ Len(results) = Len(final_posts)
          /\ \A k \in 1 .. Len(results) : final_posts[results[k]] = C27_Alone(k)

\* A full pool whose posts got comments, no comments, a failure, in turn.
C27_Witness ==
    /\ main_pc = "save"
    /\ Len(final_posts) = MaxEnrichPosts
    /\ final_posts[1].uri = 3
    /\ final_posts[2].uri = 2
    /\ final_posts[2].comments # <<>>
    /\ final_posts[3].uri = 2
    /\ fut[1].failed

\* create_session has been called and did not give a session.
C28_CreateFailed == script \in AuthScripts /\ save_pc # "create" /\ ~session_active

\* C28: after a failed create_session the script sends no API request,
\* makes no directory and opens no file; and in every script a directory
\* is made and a file is opened only for a collection that is not empty.
C28_NoFileWithoutPosts ==
    /\ [](C28_CreateFailed =>
            (page_requests = 0 /\ saves = <<>> /\ todo = <<>> /\ save_pc \in {"exit", "crashed"}))
    /\ [][C28_CreateFailed => (fs_dirs' = fs_dirs /\ saves' = saves)]_vars
    /\ [][(saves' # saves \/ fs_dirs' # fs_dirs) => (todo # <<>> /\ Head(todo) > 0)]_vars

\* multiple_user.py after a run with an empty and a non-empty collection:
\* one file.
C28_Witness ==
    /\ script = "multiple_user"
    /\ save_pc = "done"
    /\ session_active
    /\ Len(saves) = 1
    /\ page_requests = 1

\* A page request of a count-bounded paginator is being made.
C29_CountRequest == script \in CountScripts /\ rq[Main].pc # "idle"

\* C29: every post in the list of a paginator has a 'comments' key holding
\* the empty list, and the limit of every page request of a count-bounded
\* paginator is at least 1, at most PAGE_LIMIT, and equal to the smaller of
\* PAGE_LIMIT and max_posts minus the number of posts fetched so far.
C29_CommentsKeyAndLimit ==
    /\ \A i \in 1 .. Len(all_posts) :
          all_posts[i].has_comments /\ all_posts[i].comments = <<>>
    /\ C29_CountRequest =>
          /\ rq[Main].params.limit >= 1
          /\ rq[Main].params.limit <= PAGE_LIMIT
          /\ rq[Main].params.limit = Min(PAGE_LIMIT, max_posts - Len(all_posts))

\* A count-bounded paginator asks for the remainder, less than a full page,
\* with posts already in its list.
C29_Witness ==
    /\ C29_CountRequest
    /\ all_posts # <<>>
    /\ rq[Main].params.limit = max_posts - Len(all_posts)
    /\ rq[Main].params.limit < PAGE_LIMIT

====
